---- MODULE Spec2Model ----
(***************************************************************************)
(* Purchase creation (stock receipt) of the inventory management backend.  *)
(*                                                                         *)
(* The state is the committed content of the PostgreSQL tables touched by  *)
(* purchaseService.CreatePurchase, the uncommitted write set and row locks *)
(* of the transaction each call opens, and the position of each call.      *)
(* Every database round trip of a call is one step, so that concurrent     *)
(* calls interleave statement by statement (READ COMMITTED isolation).     *)
(***************************************************************************)
EXTENDS Integers, Sequences, FiniteSets, TLC

\* ---------------------------------------------------------------- bounds
MaxQty == 2
MaxItems == 2
MaxFaults == 1

Calls == {1, 2}
UserIds == {7}
WarehouseIds == {1, 2}
ProductIds == {1, 2, 3}
InitialWarehouses == {1}
InitialProducts == {1, 2}
Quantities == 0 .. MaxQty

VARIABLES
    warehouses,           \* ids of the committed rows of table warehouses
    products,             \* ids of the committed rows of table products
    stock,                \* products.stock, committed value per product id
    purchases,            \* committed rows of table purchases
    purchase_items,       \* committed rows of table purchase_items
    inventory_movements,  \* committed rows of table inventory_movements
    seq,                  \* the SERIAL sequences of the three tables
    tx,                   \* per call: the *sql.Tx it opened
    pc,                   \* per call: position inside CreatePurchase
    req,                  \* per call: the CreatePurchaseRequest and user id
    idx,                  \* per call: index of the line a loop is at
    purchase,             \* per call: the local *entities.Purchase
    ret,                  \* per call: the (purchase, error) returned
    purchaseItem,         \* per call: the local *entities.PurchaseItem
    stepErr,              \* per call: the error the failing inner step returned
    log,                  \* per call: the operations issued so far, in order
    faults,               \* storage faults injected so far
    reader,               \* a concurrent GetByID: position and what it saw
    cancelled,            \* per call: its request context is done
    http,                 \* the HTTP exchange served by call 1, if any
    inventory,            \* committed inventory rows, by (product, warehouse)
    stock_out,            \* committed stock_out rows
    out,                  \* per StockOut call: position, arguments, transaction
    mw,                   \* a request on its way through a route's middlewares
    login,                \* a POST /auth/login and the use of its token
    catalog,              \* the in-memory product repository and its callers
    earlier               \* the earlier single-line CreatePurchase: its calls

vars == <<warehouses, products, stock, purchases, purchase_items,
          inventory_movements, seq, tx, pc, req, idx, purchase,
          purchaseItem, ret, stepErr, log, faults, reader, cancelled,
          http, inventory, stock_out, out, mw, login, catalog, earlier>>

dbVars == <<warehouses, products, stock, purchases, purchase_items,
            inventory_movements>>

\* the state of the other endpoints of the server
stockOutVars == <<inventory, stock_out, out>>

otherVars == <<stockOutVars, mw, login, catalog, earlier>>

\* what the service itself never writes: the reader, the caller's context,
\* the HTTP exchange around the call and the other endpoints
envVars == <<reader, cancelled, http, otherVars>>

\* ---------------------------------------------------------------- errors
\* An error value: its message as a list of segments (joined by ": ") and
\* the error it wraps (a list of length 0 or 1), as errors.New / fmt.Errorf
\* with %w build it.
NoError == <<>>

NewError(msg) == <<[text |-> <<msg>>, cause |-> <<>>]>>

\* fmt.Errorf("<prefix>: %w", e)
ErrorfDropsCause(prefix, e) == <<[text |-> <<prefix>> \o e[1].text, cause |-> <<>>]>>

Errorf(prefix, e) == <<[text |-> <<prefix>> \o e[1].text, cause |-> e]>>

\* errors.Unwrap
Unwrap(e) == IF e = NoError THEN NoError ELSE e[1].cause

RECURSIVE Is(_, _)
\* errors.Is
Is(e, target) ==
    IF e = NoError THEN FALSE
    ELSE IF e = target THEN TRUE
    ELSE Is(Unwrap(e), target)

ErrWarehouseNotFound == NewError("warehouse not found")
ErrProductNotFound == NewError("product not found")
ErrInvalidQuantity == NewError("quantity must be greater than zero")
ErrEmptyPurchaseItems == NewError("purchase items are required")

\* fmt.Errorf("%w: product_id=%d", ErrProductNotFound, id)
ErrorfProduct(e, id) ==
    <<[text |-> e[1].text \o <<"product_id=" \o ToString(id)>>, cause |-> e]>>

\* errors produced by the storage layer (driver)
ErrStorageFault == NewError("pq: storage fault")
ErrDeadlock == NewError("pq: deadlock detected")
ErrForeignKey == NewError("pq: violates foreign key constraint")
ErrCheckViolation == NewError("pq: violates check constraint")

\* ctx.Err() of a cancelled context
ErrContextCanceled == NewError("context canceled")

RECURSIVE JoinText(_)
\* the segments of a message joined by ": "
JoinText(segments) ==
    IF Len(segments) = 1 THEN segments[1]
    ELSE segments[1] \o ": " \o JoinText(Tail(segments))

\* err.Error()
ErrorString(e) == JoinText(e[1].text)

\* ------------------------------------------------------------- requests
\* UnitPrice *float64: nil, or one amount; amounts count thousandths
NoPrice == <<>>

UnitPrices == {NoPrice, <<1500>>, <<1005>>, <<-250>>}

\* the lines of the concurrent calls carry no unit price
Lines == [product_id : ProductIds, quantity : Quantities, unit_price : {NoPrice}]

ItemLists == UNION {[1 .. n -> Lines] : n \in 0 .. MaxItems}

\* the lines of a call explored alone: any unit price, negative quantities
WideQuantities == -1 .. MaxQty

WideProductIds == ProductIds \cup {4}

WideLines ==
    [product_id : WideProductIds, quantity : WideQuantities,
     unit_price : UnitPrices]

WideItemLists == UNION {[1 .. n -> WideLines] : n \in 0 .. MaxItems}

WideRequests ==
    [warehouse_id : WarehouseIds, items : WideItemLists, user : UserIds]

\* unit_price NUMERIC(10,2): the stored amount is rounded to hundredths,
\* half away from zero
StoreNumeric(price) ==
    IF price = NoPrice THEN NoPrice
    ELSE LET n == price[1]
             a == IF n < 0 THEN -n ELSE n
             r == ((a + 5) \div 10) * 10
         IN <<IF n < 0 THEN -r ELSE r>>

Requests == [warehouse_id : WarehouseIds, items : ItemLists, user : UserIds]

NoRequest == [warehouse_id |-> 0, items |-> <<>>, user |-> 0]

NoPurchase == [id |-> 0, warehouse_id |-> 0, created_by |-> 0, items |-> <<>>]

RECURSIVE LineSum(_, _)
\* sum of the quantities of the lines of `items` that name product p
LineSum(items, p) ==
    IF items = <<>> THEN 0
    ELSE (IF Head(items).product_id = p THEN Head(items).quantity ELSE 0)
         + LineSum(Tail(items), p)

ValidatePurchaseItemsFirstOnly(items) ==
    IF Len(items) = 0 THEN ErrEmptyPurchaseItems
    ELSE IF items[1].quantity <= 0 THEN ErrInvalidQuantity
         ELSE NoError

ValidatePurchaseItemsAllowsZero(items) ==
    IF Len(items) = 0 THEN ErrEmptyPurchaseItems
    ELSE IF \E i \in 1 .. Len(items) : items[i].quantity < 0
         THEN ErrInvalidQuantity
         ELSE NoError

\* ItemValidator
ValidatePurchaseItems(items) ==
    IF Len(items) = 0 THEN ErrEmptyPurchaseItems
    ELSE IF \E i \in 1 .. Len(items) : items[i].quantity <= 0
         THEN ErrInvalidQuantity
         ELSE NoError

\* ------------------------------------------------------------ unit of work
\* stockWrites[p] is the row version of products.stock this transaction
\* wrote and holds locked, or -1 when it has not updated product p.
EmptyTx ==
    [state |-> "idle", purchases |-> {}, items |-> {}, movements |-> {},
     stockWrites |-> [p \in ProductIds |-> -1]]

TxStates == {"idle", "open", "committed", "rolledback"}

Locks(t) == {p \in ProductIds : t.stockWrites[p] # -1}

\* the call, other than c, whose open transaction holds the row lock of p
LockHolders(c, p) ==
    {c2 \in Calls \ {c} : tx[c2].state = "open" /\ p \in Locks(tx[c2])}

RowLockFreeNoLocking(c, p) == TRUE

\* UPDATE takes the row lock; it waits while another transaction holds it
RowLockFree(c, p) == LockHolders(c, p) = {}

\* pure lookups against the committed state
WarehouseExists(id) == id \in warehouses

ProductExists(id) == id \in products

AppendLog(c, op, line) ==
    log' = [log EXCEPT ![c] = Append(@, [op |-> op, line |-> line])]

AppendLog2(c, op1, op2, line) ==
    log' = [log EXCEPT ![c] =
               @ \o <<[op |-> op1, line |-> line], [op |-> op2, line |-> 0]>>]

\* return purchase, err
Return(c, p, e) ==
    /\ pc' = [pc EXCEPT ![c] = "done"]
    /\ ret' = [ret EXCEPT ![c] = [purchase |-> p, err |-> e]]

Nil == <<>>

\* tx.Commit() succeeding: the write set becomes visible at once
CommitTx(c) ==
    /\ purchases' = purchases \cup tx[c].purchases
    /\ purchase_items' = purchase_items \cup tx[c].items
    /\ inventory_movements' = inventory_movements \cup tx[c].movements
    /\ stock' = [p \in ProductIds |->
                    IF tx[c].stockWrites[p] # -1 THEN tx[c].stockWrites[p]
                    ELSE stock[p]]
    /\ tx' = [tx EXCEPT ![c] = [EmptyTx EXCEPT !.state = "committed"]]
    /\ UNCHANGED <<warehouses, products>>

\* tx.Rollback(): the write set is discarded and the locks are released
RollbackTx(c) ==
    /\ tx' = [tx EXCEPT ![c] = [EmptyTx EXCEPT !.state = "rolledback"]]
    /\ UNCHANGED dbVars

AbortHowCommitsHeader(step) == IF step = "createItem" THEN "commit" ELSE "rollback"

AbortHowCommits(step) == IF step = "createMovement" THEN "commit" ELSE "rollback"

AbortHowForgets(step) == IF step = "createItem" THEN "none" ELSE "rollback"

\* what the error path of a step inside the unit of work does to it:
\* every one of them calls tx.Rollback() before it returns
AbortHow(step) == "rollback"

ServiceErrorfUnwrapped(prefix, e) == ErrorfDropsCause(prefix, e)

\* the error the service returns for an inner error e
ServiceErrorf(prefix, e) == Errorf(prefix, e)

\* if err != nil { _ = tx.Rollback(); return nil, fmt.Errorf("...: %w", err) }
FailInTx(c, step, prefix, e) ==
    /\ CASE AbortHow(step) = "rollback" -> RollbackTx(c)
         [] AbortHow(step) = "commit" -> CommitTx(c)
         [] OTHER -> UNCHANGED <<tx, dbVars>>
    /\ AppendLog2(c, step, "rollback", idx[c])
    /\ stepErr' = [stepErr EXCEPT ![c] = e]
    /\ Return(c, Nil, ServiceErrorf(prefix, e))
    /\ UNCHANGED <<seq, req, idx, purchase, purchaseItem>>

\* a storage fault may hit any statement; at most MaxFaults are injected
FaultPossible == faults < MaxFaults

Fault == FaultPossible /\ faults' = faults + 1

NoFault == UNCHANGED faults

\* a statement run with a context that is done fails without reaching
\* the storage; otherwise it fails only on an injected fault
Healthy(c) == ~cancelled[c] /\ NoFault

Fails(c) == IF cancelled[c] THEN UNCHANGED faults ELSE Fault

StepError(c) == IF cancelled[c] THEN ErrContextCanceled ELSE ErrStorageFault

BeginTxContextBackground(c) == "background"

\* the context the transaction is bound to: BeginTx hands the caller's on
BeginTxContext(c) == "request"

\* the context of the transaction is done: tx.Commit() refuses, and the
\* sql package has rolled the transaction back
TxCancelled(c) == BeginTxContext(c) = "request" /\ cancelled[c]

\* ------------------------------------------------------------------ reader
IdleReader == [pc |-> "idle", id |-> 0, header |-> {}, items |-> <<>>]

\* the rows of a set, as a list in ascending id order (ORDER BY id)
RECURSIVE OrderById(_)
OrderById(rows) ==
    IF rows = {} THEN <<>>
    ELSE LET first == CHOOSE r \in rows : \A o \in rows : r.id <= o.id
         IN <<first>> \o OrderById(rows \ {first})

\* purchaseRepository.GetItemsByPurchaseID, on the committed state
GetItemsByPurchaseID(id) ==
    OrderById({i \in purchase_items : i.purchase_id = id})

\* ------------------------------------------------------------------ Init
NoItem ==
    [id |-> 0, purchase_id |-> 0, product_id |-> 0, quantity |-> 0,
     unit_price |-> NoPrice]

\* ------------------------------------------------------------------ HTTP
\* the Authorization header: absent, not "Bearer <token>", a token that
\* does not verify, or a valid token with its user_id and role claims
\* (user_id <<>> and role "" stand for a claim that is missing)
NoAuth == [kind |-> "absent", user_id |-> <<>>, role |-> ""]

AuthHeaders ==
    [kind : {"absent", "malformed", "invalid"}, user_id : {<<>>}, role : {""}]
    \cup [kind : {"valid"},
          user_id : {<<>>, <<0>>} \cup {<<u>> : u \in UserIds},
          role : {"", "staff", "guest"}]

Methods == {"POST", "GET"}

\* the request body: not JSON, or a decoded CreatePurchaseRequest (a
\* missing warehouse_id decodes to 0, missing items to the empty list)
NoBody == [kind |-> "garbage", warehouse_id |-> 0, items |-> <<>>]

Bodies ==
    {NoBody}
    \cup [kind : {"json"}, warehouse_id : {0} \cup WarehouseIds, items : ItemLists]

AllRoles == {"admin", "manager", "staff"}

NoExchange ==
    [stage |-> "none", auth |-> NoAuth, method |-> "", body |-> NoBody,
     status |-> 0, error |-> "", served |-> FALSE]

\* a middleware or handler that lets the request through writes nothing
Pass == [status |-> 0, error |-> ""]

Reply(status, error) == [status |-> status, error |-> error]

\* middleware.JWTAuth
JWTAuth(a) ==
    CASE a.kind = "absent" -> Reply(401, "authorization header required")
      [] a.kind = "malformed" -> Reply(401, "invalid authorization header format")
      [] a.kind = "invalid" -> Reply(401, "invalid or expired token")
      [] OTHER -> Pass

\* r.Context().Value(ContextKeyUserID) after JWTAuth
ContextUserID(a) == IF a.kind = "valid" THEN a.user_id ELSE <<>>

\* middleware.RequireRole(allRoles...)
RequireRole(a) ==
    IF a.role = "" THEN Reply(403, "forbidden")
    ELSE IF a.role \notin AllRoles THEN Reply(403, "forbidden: insufficient role")
         ELSE Pass

\* PurchaseHandler.CreatePurchase up to the call of the service
HandlerChecks(b, user) ==
    IF b.kind = "garbage" THEN Reply(400, "invalid request body")
    ELSE IF b.warehouse_id = 0 THEN Reply(400, "warehouse_id is required")
         ELSE IF Len(b.items) = 0 THEN Reply(400, "items are required")
              ELSE IF user = <<>> \/ user[1] = 0
                   THEN Reply(401, "unauthorized: user_id not found")
                   ELSE Pass

\* the route /purchases: JWTAuth, the method switch, RequireRole, handler
Route(a, m, b) ==
    IF JWTAuth(a) # Pass THEN JWTAuth(a)
    ELSE IF m # "POST" THEN Reply(405, "method not allowed")
         ELSE IF RequireRole(a) # Pass THEN RequireRole(a)
              ELSE HandlerChecks(b, ContextUserID(a))

IsProductNotFoundSentinelOnly(e) == IF e = ErrProductNotFound THEN "yes" ELSE "no"

\* err == service.ErrProductNotFound || err.Error()[:17] == "product not found"
\* (the slice panics on a message shorter than 17 bytes)
IsProductNotFound(e) ==
    IF e = ErrProductNotFound THEN "yes"
    ELSE IF Len(ErrorString(e)) < 17 THEN "panic"
         ELSE IF SubSeq(ErrorString(e), 1, 17) = "product not found" THEN "yes"
              ELSE "no"

InternalErrorBodyEchoes(e) == ErrorString(e)

\* default: {"error":"internal server error"}
InternalErrorBody(e) == "internal server error"

\* PurchaseHandler.CreatePurchase after the service returned: status and
\* the text of the "error" member of the body; status 0: the handler
\* panicked and wrote no response
HandlerResponse(r) ==
    IF r.err = NoError THEN Reply(201, "")
    ELSE IF r.err = ErrWarehouseNotFound THEN Reply(404, "warehouse not found")
    ELSE IF IsProductNotFound(r.err) = "panic" THEN Reply(0, "")
    ELSE IF IsProductNotFound(r.err) = "yes" THEN Reply(404, ErrorString(r.err))
    ELSE IF r.err = ErrInvalidQuantity
         THEN Reply(400, "quantity must be greater than zero")
    ELSE IF r.err = ErrEmptyPurchaseItems
         THEN Reply(400, "purchase items are required")
    ELSE Reply(500, InternalErrorBody(r.err))

InitialStock == [p \in ProductIds |-> 0]

\* ------------------------------------------------------------ POST /stock-out
MaxOut == 2

InitialQuantity == 3

\* the inventory rows at the start: product 1 is held in warehouse 1 only
InitialInventory == [k \in {<<1, 1>>} |-> InitialQuantity]

\* StockOutRequest as the handler decodes it and hands it to the service:
\* quantity is any int, no field is validated
StockOutRequests ==
    [product_id : {1}, warehouse_id : WarehouseIds, quantity : -1 .. MaxOut]

NoStockOut ==
    [pc |-> "idle", product_id |-> 0, warehouse_id |-> 0, quantity |-> 0,
     currentQty |-> 0, tx |-> "idle", locked |-> FALSE, update |-> <<>>,
     insert |-> {}, err |-> NoError]

ErrNoRows == NewError("sql: no rows in result set")

ErrNotEnoughStock == NewError("not enough stock")

\* ------------------------------------------------------ middleware chains
\* a handler is the list of its layers, outermost first: the middleware m
\* applied to h runs before h
Wrap(m, h) == <<m>> \o h

RECURSIVE ChainFrom(_, _, _)
ChainFrom(h, middlewares, i) ==
    IF i >= 1 THEN ChainFrom(Wrap(middlewares[i], h), middlewares, i - 1)
    ELSE h

\* middleware.Chain: for i := len(middlewares) - 1; i >= 0; i--
\* { h = middlewares[i](h) }
Chain(h, middlewares) == ChainFrom(h, middlewares, Len(middlewares))

AdminOnly == {"admin"}

UserRoutes == {"/users", "/users/get", "/users/update", "/users/delete"}

ProtectedRoutes == UserRoutes \cup {"/purchases"}

\* the layers main registers for a route, and the roles its RequireRole lets in
Layers(route) ==
    IF route \in UserRoutes
    THEN Chain(<<"handler">>, <<"RequireRole", "JWTAuth">>)
    ELSE Wrap("JWTAuth", Wrap("switch", Wrap("RequireRole", <<"handler">>)))

Allowed(route) == IF route \in UserRoutes THEN AdminOnly ELSE AllRoles

\* the Authorization headers tried on these routes
TokenHeaders ==
    [kind : {"absent", "malformed", "invalid"}, user_id : {<<>>}, role : {""}]
    \cup [kind : {"valid"}, user_id : {<<u>> : u \in UserIds},
          role : {"", "admin", "staff", "guest"}]

NoRole == <<>>

NoPassage ==
    [stage |-> "none", route |-> "", method |-> "", auth |-> NoAuth,
     layers |-> <<>>, role |-> NoRole, order |-> <<>>, status |-> 0,
     error |-> "", reached |-> FALSE]

\* RequireRole's test of r.Context().Value(ContextKeyRole)
RequireRoleOf(role, roles) ==
    IF role = NoRole \/ role[1] = "" THEN Reply(403, "forbidden")
    ELSE IF role[1] \notin roles THEN Reply(403, "forbidden: insufficient role")
         ELSE Pass

\* ----------------------------------------------------- POST /auth/login
Emails == {"ann@example.com", "bob@example.com"}

Passwords == {"pw-one", "pw-two"}

\* os.Getenv("JWT_SECRET"): "" when the variable is unset or empty
Secrets == {"", "s3cret", "changeme-in-production"}

\* bcrypt.GenerateFromPassword
Hash(password) == <<"bcrypt", password>>

\* bcrypt.CompareHashAndPassword(hash, password) == nil
CompareHashAndPassword(hash, password) == hash = Hash(password)

\* the users table: registered emails with their password hash and role
UserStores ==
    UNION {[S -> [password_hash : {Hash(p) : p \in Passwords},
                  role : {"staff"}]] : S \in SUBSET Emails}

\* LoginRequest as decoded: a missing field is the empty string
LoginRequests == [email : {""} \cup Emails, password : {""} \cup Passwords]

ErrInvalidInput == NewError("invalid input")

ErrInvalidCredentials == NewError("invalid email or password")

ErrUserNotFound == NewError("user not found")

NoToken == <<>>

\* UserRepository.GetByEmail: the user, ErrUserNotFound, or the error of a
\* failed lookup
GetByEmail(users, email, failed) ==
    IF failed THEN [user |-> <<>>, err |-> ErrStorageFault]
    ELSE IF email \in DOMAIN users
         THEN [user |-> <<[email |-> email] @@ users[email]>>, err |-> NoError]
         ELSE [user |-> <<>>, err |-> ErrUserNotFound]

\* generateJWT's signing key: JWT_SECRET, or a default when it is empty
SigningKey(env) == IF env = "" THEN "changeme-in-production" ELSE env

\* the key JWTAuth's key function returns: []byte(os.Getenv("JWT_SECRET"))
VerificationKey(env) == env

\* generateJWT: the claims signed with HS256 under the signing key
GenerateJWT(user, env) ==
    <<[email |-> user.email, role |-> user.role, key |-> SigningKey(env)]>>

LookupErrorPassed(e) == e

\* Login's answer to any error of GetByEmail
LookupError(e) == ErrInvalidCredentials

\* userService.Login
Login(users, r, env, failed) ==
    IF r.email = "" \/ r.password = ""
    THEN [token |-> NoToken, err |-> ErrInvalidInput]
    ELSE LET found == GetByEmail(users, r.email, failed) IN
         IF found.err # NoError
         THEN [token |-> NoToken, err |-> LookupError(found.err)]
         ELSE IF ~CompareHashAndPassword(found.user[1].password_hash,
                                         r.password)
              THEN [token |-> NoToken, err |-> ErrInvalidCredentials]
              ELSE [token |-> GenerateJWT(found.user[1], env), err |-> NoError]

\* AuthHandler.Login after decoding: status and error body, or 200
LoginResponse(res) ==
    IF res.err = NoError THEN Reply(200, "")
    ELSE IF Is(res.err, ErrInvalidCredentials)
         THEN Reply(401, "invalid email or password")
         ELSE Reply(500, "login failed")

\* jwt.Parse in JWTAuth: the signature is checked with the verification
\* key, then the exp claim
ParseToken(token, env, expired) ==
    IF token[1].key = VerificationKey(env) /\ ~expired
    THEN [kind |-> "valid", user_id |-> <<>>, role |-> token[1].role]
    ELSE [kind |-> "invalid", user_id |-> <<>>, role |-> ""]

\* the store that differs from users only in whether email is registered
Twins(users, email) ==
    IF email \in DOMAIN users
    THEN {[e \in DOMAIN users \ {email} |-> users[e]]}
    ELSE {users @@ (email :> [password_hash |-> Hash(p), role |-> "staff"]) :
            p \in Passwords}

NoLogin ==
    [stage |-> "none", env |-> "", users |-> <<>>, twin |-> <<>>,
     req |-> [email |-> "", password |-> ""], failed |-> FALSE,
     res |-> [token |-> NoToken, err |-> NoError],
     twinRes |-> [token |-> NoToken, err |-> NoError],
     expired |-> FALSE, verdict |-> Pass]

\* ------------------------------------------- in-memory product repository
MaxOps == 4

Skus == {"", "A", "B"}

Names == {"", "bolt"}

\* entity.Product as a caller fills it: id 0 when unset
ProductArgs == [id : 0 .. 3, name : Names, sku : Skus]

NoProductCall == [pc |-> "idle", arg |-> [id |-> 0, name |-> "", sku |-> ""],
                  err |-> NoError]

ErrProductExists == NewError("product already exists")

\* NewProductRepository: an empty map and nextID 1; deleted remembers the
\* ids Delete has removed, ops counts the service calls made
NewProductRepository ==
    [products |-> <<>>, nextID |-> 1, deleted |-> {}, ops |-> 0,
     calls |-> [c \in Calls |-> NoProductCall]]

\* productRepository.GetBySKU found a product
SkuTaken(sku) ==
    \E i \in DOMAIN catalog.products : catalog.products[i].sku = sku

\* --------------------------------- the earlier single-line CreatePurchase
\* entities.Purchase of that variant: one warehouse and one quantity
EarlierPurchases == [warehouse_id : WarehouseIds, quantity : Quantities]

NoEarlierCall ==
    [pc |-> "idle", purchase |-> [warehouse_id |-> 0, quantity |-> 0],
     tx |-> "idle", pending |-> {}, id |-> 0, err |-> NoError]

InitOther ==
    /\ inventory = InitialInventory
    /\ stock_out = {}
    /\ out = [c \in Calls |-> NoStockOut]
    /\ mw = NoPassage
    /\ login = NoLogin
    /\ catalog = NewProductRepository
    /\ earlier = [rows |-> {}, seq |-> 0,
                  calls |-> [c \in Calls |-> NoEarlierCall]]

Init ==
    /\ warehouses = InitialWarehouses
    /\ products = InitialProducts
    /\ stock = InitialStock
    /\ purchases = {}
    /\ purchase_items = {}
    /\ inventory_movements = {}
    /\ seq = [purchases |-> 0, purchase_items |-> 0, inventory_movements |-> 0]
    /\ tx = [c \in Calls |-> EmptyTx]
    /\ pc = [c \in Calls |-> "idle"]
    /\ req = [c \in Calls |-> NoRequest]
    /\ idx = [c \in Calls |-> 0]
    /\ purchase = [c \in Calls |-> NoPurchase]
    /\ purchaseItem = [c \in Calls |-> NoItem]
    /\ ret = [c \in Calls |-> [purchase |-> Nil, err |-> NoError]]
    /\ stepErr = [c \in Calls |-> NoError]
    /\ log = [c \in Calls |-> <<>>]
    /\ faults = 0
    /\ reader = IdleReader
    /\ cancelled = [c \in Calls |-> FALSE]
    /\ http = NoExchange
    /\ InitOther

\* ------------------------------------------------- CreatePurchase, by step
\* entry of CreatePurchase and item validation (no I/O)
Enter(c, r) ==
    /\ pc[c] = "idle"
    /\ req' = [req EXCEPT ![c] = r]
    /\ LET e == ValidatePurchaseItems(r.items) IN
          IF e # NoError
          THEN Return(c, Nil, e)
          ELSE /\ pc' = [pc EXCEPT ![c] = "checkWarehouse"]
               /\ UNCHANGED ret
    /\ AppendLog(c, "validate", 0)
    /\ UNCHANGED <<dbVars, seq, tx, idx, purchase, purchaseItem, stepErr, faults>>

\* a call of CreatePurchase by one of the concurrent callers
Start(c) ==
    /\ pc[c] = "idle"
    /\ \E r \in Requests : Enter(c, r)
    /\ UNCHANGED envVars

\* warehouseRepo.ExistsByID
CheckWarehouse(c) ==
    /\ pc[c] = "checkWarehouse"
    /\ UNCHANGED envVars
    /\ \/ /\ Healthy(c)
          /\ IF WarehouseExists(req[c].warehouse_id)
             THEN /\ pc' = [pc EXCEPT ![c] = "checkProduct"]
                  /\ idx' = [idx EXCEPT ![c] = 1]
                  /\ UNCHANGED ret
             ELSE /\ Return(c, Nil, ErrWarehouseNotFound)
                  /\ UNCHANGED idx
       \/ /\ Fails(c)
          /\ Return(c, Nil, Errorf("failed to check warehouse",
                       Errorf("failed to check warehouse existence", StepError(c))))
          /\ UNCHANGED idx
    /\ AppendLog(c, "warehouseExists", 0)
    /\ UNCHANGED <<dbVars, seq, tx, req, purchase, purchaseItem, stepErr>>

ProductCheckIgnored(exists) == TRUE

\* if !productExists { return ... } : the loop goes on only when it exists
ProductCheckPasses(exists) == exists

NotFoundErrorNamesQuantity(item) == ErrorfProduct(ErrProductNotFound, item.quantity)

\* fmt.Errorf("%w: product_id=%d", ErrProductNotFound, item.ProductID)
NotFoundError(item) == ErrorfProduct(ErrProductNotFound, item.product_id)

MoreToCheckNone(c) == FALSE

\* for _, item := range req.Items: the lookups go on to the last line
MoreToCheck(c) == idx[c] < Len(req[c].items)

\* productRepo.ExistsByID for the line the loop is at
CheckProduct(c) ==
    /\ pc[c] = "checkProduct"
    /\ UNCHANGED envVars
    /\ LET item == req[c].items[idx[c]] IN
         \/ /\ Healthy(c)
            /\ IF ProductCheckPasses(ProductExists(item.product_id))
               THEN /\ IF MoreToCheck(c)
                       THEN /\ idx' = [idx EXCEPT ![c] = @ + 1]
                            /\ UNCHANGED pc
                       ELSE /\ pc' = [pc EXCEPT ![c] = "beginTx"]
                            /\ idx' = [idx EXCEPT ![c] = 0]
                    /\ UNCHANGED ret
               ELSE /\ Return(c, Nil, NotFoundError(item))
                    /\ UNCHANGED idx
         \/ /\ Fails(c)
            /\ Return(c, Nil, Errorf("failed to check product", StepError(c)))
            /\ UNCHANGED idx
    /\ AppendLog(c, "productExists", idx[c])
    /\ UNCHANGED <<dbVars, seq, tx, req, purchase, purchaseItem, stepErr>>

\* database.BeginTx
BeginTx(c) ==
    /\ pc[c] = "beginTx"
    /\ UNCHANGED envVars
    /\ \/ /\ Healthy(c)
          /\ tx' = [tx EXCEPT ![c].state = "open"]
          /\ pc' = [pc EXCEPT ![c] = "createPurchase"]
          /\ UNCHANGED ret
       \/ /\ Fails(c)
          /\ Return(c, Nil, Errorf("failed to begin transaction", StepError(c)))
          /\ UNCHANGED tx
    /\ AppendLog(c, "begin", 0)
    /\ UNCHANGED <<dbVars, seq, req, idx, purchase, purchaseItem, stepErr>>

ProductFKAbsent(p) == TRUE

\* product_id REFERENCES products(id): an insert needs the row to exist
ProductFK(p) == p \in products

\* warehouse_id REFERENCES warehouses(id)
WarehouseFK(w) == w \in warehouses

InsertPurchaseRowDirect(c, row) ==
    /\ purchases' = purchases \cup {row}
    /\ UNCHANGED tx

\* tx.QueryRowContext: the row goes to the write set of the transaction
InsertPurchaseRow(c, row) ==
    /\ tx' = [tx EXCEPT ![c].purchases = @ \cup {row}]
    /\ UNCHANGED purchases

\* purchaseRepo.CreateWithTx: INSERT INTO purchases ... RETURNING id
CreateHeader(c) ==
    /\ pc[c] = "createPurchase"
    /\ UNCHANGED envVars
    /\ \/ /\ Healthy(c)
          /\ WarehouseFK(req[c].warehouse_id)
          /\ LET id == seq.purchases + 1
                 row == [id |-> id, warehouse_id |-> req[c].warehouse_id,
                         created_by |-> req[c].user]
             IN /\ seq' = [seq EXCEPT !.purchases = id]
                /\ InsertPurchaseRow(c, row)
                /\ purchase' = [purchase EXCEPT ![c] =
                       [id |-> id, warehouse_id |-> req[c].warehouse_id,
                        created_by |-> req[c].user, items |-> <<>>]]
          /\ pc' = [pc EXCEPT ![c] = "createItem"]
          /\ idx' = [idx EXCEPT ![c] = 1]
          /\ AppendLog(c, "createPurchase", 0)
          /\ UNCHANGED <<warehouses, products, stock, purchase_items,
                         inventory_movements, req, purchaseItem, ret, stepErr>>
       \/ /\ Healthy(c)
          /\ ~WarehouseFK(req[c].warehouse_id)
          /\ FailInTx(c, "createPurchase", "failed to create purchase",
                      Errorf("failed to create purchase", ErrForeignKey))
       \/ /\ Fails(c)
          /\ FailInTx(c, "createPurchase", "failed to create purchase",
                      Errorf("failed to create purchase", StepError(c)))

LineAtReversed(c) == req[c].items[Len(req[c].items) + 1 - idx[c]]

\* for _, item := range req.Items: the line the item loop is at
LineAt(c) == req[c].items[idx[c]]

\* purchaseRepo.CreatePurchaseItemWithTx: INSERT INTO purchase_items ...
CreateItem(c) ==
    /\ pc[c] = "createItem"
    /\ UNCHANGED envVars
    /\ LET item == LineAt(c) IN
         \/ /\ Healthy(c)
            /\ ProductFK(item.product_id)
            /\ item.quantity > 0
            /\ LET id == seq.purchase_items + 1
                   local == [id |-> id, purchase_id |-> purchase[c].id,
                             product_id |-> item.product_id,
                             quantity |-> item.quantity,
                             unit_price |-> item.unit_price]
                   row == [local EXCEPT !.unit_price = StoreNumeric(@)]
               IN /\ seq' = [seq EXCEPT !.purchase_items = id]
                  /\ tx' = [tx EXCEPT ![c].items = @ \cup {row}]
                  /\ purchaseItem' = [purchaseItem EXCEPT ![c] = local]
            /\ pc' = [pc EXCEPT ![c] = "incrementStock"]
            /\ AppendLog(c, "createItem", idx[c])
            /\ UNCHANGED <<dbVars, req, idx, purchase, ret, stepErr>>
         \/ /\ Healthy(c)
            /\ ~ProductFK(item.product_id)
            /\ FailInTx(c, "createItem", "failed to create purchase item",
                        Errorf("failed to create purchase item", ErrForeignKey))
         \/ /\ Healthy(c)
            /\ item.quantity <= 0
            /\ FailInTx(c, "createItem", "failed to create purchase item",
                        Errorf("failed to create purchase item", ErrCheckViolation))
         \/ /\ Fails(c)
            /\ FailInTx(c, "createItem", "failed to create purchase item",
                        Errorf("failed to create purchase item", StepError(c)))

StockDeltaSwapped(item) == item.product_id

\* the delta the item loop passes to IncrementStockWithTx
StockDelta(item) == item.quantity

\* productRepo.IncrementStockWithTx: UPDATE products SET stock = stock + d
IncrementStock(c) ==
    /\ pc[c] = "incrementStock"
    /\ UNCHANGED envVars
    /\ LET item == LineAt(c)
           p == item.product_id
           cur == IF tx[c].stockWrites[p] # -1 THEN tx[c].stockWrites[p]
                  ELSE stock[p]
       IN \/ /\ Healthy(c)
             /\ RowLockFree(c, p)
             /\ tx' = [tx EXCEPT ![c].stockWrites[p] = cur + StockDelta(item)]
             /\ pc' = [pc EXCEPT ![c] = "createMovement"]
             /\ AppendLog(c, "incrementStock", idx[c])
             /\ UNCHANGED <<dbVars, seq, req, idx, purchase, purchaseItem,
                            ret, stepErr>>
          \/ /\ Fails(c)
             /\ FailInTx(c, "incrementStock", "failed to increment stock",
                         StepError(c))

\* the calls c waits for: holders of the row lock its UPDATE needs
WaitsFor(c) ==
    IF pc[c] = "incrementStock"
    THEN LockHolders(c, req[c].items[idx[c]].product_id)
    ELSE {}

\* the storage engine breaks a lock cycle by failing one waiting UPDATE
DeadlockAbort(c) ==
    /\ pc[c] = "incrementStock"
    /\ UNCHANGED envVars
    /\ \E h \in WaitsFor(c) : c \in WaitsFor(h)
    /\ FailInTx(c, "incrementStock", "failed to increment stock", ErrDeadlock)
    /\ UNCHANGED faults

AppendItemInFront(items, item) == <<item>> \o items

\* purchase.Items = append(purchase.Items, *purchaseItem)
AppendItem(items, item) == Append(items, item)

MovementReferenceItem(c) == purchaseItem[c].id

\* ReferenceID: purchase.ID
MovementReference(c) == purchase[c].id

\* inventoryMovementRepo.CreateWithTx, then purchase.Items = append(...)
CreateMovement(c) ==
    /\ pc[c] = "createMovement"
    /\ UNCHANGED envVars
    /\ LET item == LineAt(c) IN
         \/ /\ Healthy(c)
            /\ ProductFK(item.product_id)
            /\ WarehouseFK(req[c].warehouse_id)
            /\ LET id == seq.inventory_movements + 1
                   row == [id |-> id, product_id |-> item.product_id,
                           warehouse_id |-> req[c].warehouse_id,
                           movement_type |-> "purchase",
                           quantity |-> item.quantity,
                           reference_type |-> "purchase",
                           reference_id |-> MovementReference(c),
                           created_by |-> req[c].user]
               IN /\ seq' = [seq EXCEPT !.inventory_movements = id]
                  /\ tx' = [tx EXCEPT ![c].movements = @ \cup {row}]
            /\ purchase' = [purchase EXCEPT ![c].items = AppendItem(@, purchaseItem[c])]
            /\ IF idx[c] < Len(req[c].items)
               THEN /\ idx' = [idx EXCEPT ![c] = @ + 1]
                    /\ pc' = [pc EXCEPT ![c] = "createItem"]
               ELSE /\ pc' = [pc EXCEPT ![c] = "commit"]
                    /\ idx' = [idx EXCEPT ![c] = 0]
            /\ AppendLog(c, "createMovement", idx[c])
            /\ UNCHANGED <<dbVars, req, purchaseItem, ret, stepErr>>
         \/ /\ Healthy(c)
            /\ \/ ~ProductFK(item.product_id)
               \/ ~WarehouseFK(req[c].warehouse_id)
            /\ FailInTx(c, "createMovement", "failed to create inventory movement",
                        Errorf("failed to create inventory movement", ErrForeignKey))
         \/ /\ Fails(c)
            /\ FailInTx(c, "createMovement", "failed to create inventory movement",
                        Errorf("failed to create inventory movement", StepError(c)))

\* tx.Commit(), and on its failure tx.Rollback()
Commit(c) ==
    /\ pc[c] = "commit"
    /\ UNCHANGED envVars
    /\ \/ /\ ~TxCancelled(c)
          /\ NoFault
          /\ CommitTx(c)
          /\ Return(c, <<purchase[c]>>, NoError)
          /\ AppendLog(c, "commit", 0)
          /\ UNCHANGED <<seq, req, idx, purchase, purchaseItem, stepErr>>
       \/ /\ IF TxCancelled(c) THEN UNCHANGED faults ELSE Fault
          /\ FailInTx(c, "commit", "failed to commit transaction",
                      IF TxCancelled(c) THEN ErrContextCanceled
                      ELSE ErrStorageFault)

\* purchaseRepository.GetByID, first statement: SELECT ... FROM purchases
GetByIDHeader ==
    /\ reader.pc = "idle"
    /\ \E id \in 1 .. Cardinality(Calls) :
          LET found == {h \in purchases : h.id = id} IN
             reader' = [pc |-> IF found = {} THEN "notfound" ELSE "items",
                        id |-> id, header |-> found, items |-> <<>>]
    /\ UNCHANGED <<dbVars, seq, tx, pc, req, idx, purchase, purchaseItem, ret,
                   stepErr, log, faults, cancelled, http, otherVars>>

\* purchaseRepository.GetByID, second statement: the items of the purchase
GetByIDItems ==
    /\ reader.pc = "items"
    /\ reader' = [reader EXCEPT !.pc = "found",
                                 !.items = GetItemsByPurchaseID(reader.id)]
    /\ UNCHANGED <<dbVars, seq, tx, pc, req, idx, purchase, purchaseItem, ret,
                   stepErr, log, faults, cancelled, http, otherVars>>

Next ==
    \E c \in Calls :
        \/ Start(c)
        \/ CheckWarehouse(c)
        \/ CheckProduct(c)
        \/ BeginTx(c)
        \/ CreateHeader(c)
        \/ CreateItem(c)
        \/ IncrementStock(c)
        \/ DeadlockAbort(c)
        \/ CreateMovement(c)
        \/ Commit(c)

NextRead ==
    \/ Next
    \/ GetByIDHeader
    \/ GetByIDItems

Spec == Init /\ [][Next]_vars

\* the calls together with a concurrent reader
SpecRead == Init /\ [][NextRead]_vars

\* a committed row references product p (ON DELETE RESTRICT refuses)
ProductReferenced(p) ==
    \/ \E i \in purchase_items : i.product_id = p
    \/ \E m \in inventory_movements : m.product_id = p

\* an open transaction has inserted a row that references product p, or
\* updated its stock: it holds a lock on the row, and a DELETE waits
ProductPinned(p) ==
    \E c \in Calls :
        /\ tx[c].state = "open"
        /\ \/ \E i \in tx[c].items : i.product_id = p
           \/ \E m \in tx[c].movements : m.product_id = p
           \/ p \in Locks(tx[c])

WarehouseReferenced(w) ==
    \/ \E h \in purchases : h.warehouse_id = w
    \/ \E m \in inventory_movements : m.warehouse_id = w

WarehousePinned(w) ==
    \E c \in Calls :
        /\ tx[c].state = "open"
        /\ \/ \E h \in tx[c].purchases : h.warehouse_id = w
           \/ \E m \in tx[c].movements : m.warehouse_id = w

\* productRepository.Delete: DELETE FROM products WHERE id=$1, committed at
\* once; a refused or waiting DELETE changes nothing and is no step
DeleteProduct(p) ==
    /\ p \in products
    /\ ~ProductPinned(p)
    /\ ~ProductReferenced(p)
    /\ products' = products \ {p}
    /\ UNCHANGED <<warehouses, stock, purchases, purchase_items,
                   inventory_movements, seq, tx, pc, req, idx, purchase,
                   purchaseItem, ret, stepErr, log, faults, envVars>>

\* warehouseRepository.Delete: DELETE FROM warehouses WHERE id = $1
DeleteWarehouse(w) ==
    /\ w \in warehouses
    /\ ~WarehousePinned(w)
    /\ ~WarehouseReferenced(w)
    /\ warehouses' = warehouses \ {w}
    /\ UNCHANGED <<products, stock, purchases, purchase_items,
                   inventory_movements, seq, tx, pc, req, idx, purchase,
                   purchaseItem, ret, stepErr, log, faults, envVars>>

\* the caller's request context is cancelled or its deadline passes while
\* the call runs; the sql package rolls back a transaction begun with it
Cancel(c) ==
    /\ pc[c] \notin {"idle", "done"}
    /\ ~cancelled[c]
    /\ cancelled' = [cancelled EXCEPT ![c] = TRUE]
    /\ AppendLog(c, "cancel", 0)
    /\ IF tx[c].state = "open" /\ BeginTxContext(c) = "request"
       THEN RollbackTx(c)
       ELSE UNCHANGED <<tx, dbVars>>
    /\ UNCHANGED <<seq, pc, req, idx, purchase, purchaseItem, ret, stepErr,
                   faults, reader, http, otherVars>>

\* POST /purchases arrives: the middleware chain and the handler run up to
\* a rejection or to the call of purchaseService.CreatePurchase (call c)
ServeHTTP(c) ==
    /\ http.stage = "none"
    /\ pc[c] = "idle"
    /\ \E a \in AuthHeaders, m \in Methods, b \in Bodies :
          LET early == Route(a, m, b)
              exchange == [NoExchange EXCEPT !.auth = a, !.method = m, !.body = b]
          IN IF early # Pass
             THEN /\ http' = [exchange EXCEPT !.stage = "responded",
                                              !.status = early.status,
                                              !.error = early.error]
                  /\ UNCHANGED <<dbVars, seq, tx, pc, req, idx, purchase,
                                 purchaseItem, ret, stepErr, log, faults>>
             ELSE /\ http' = [exchange EXCEPT !.stage = "service",
                                              !.served = TRUE]
                  /\ Enter(c, [warehouse_id |-> b.warehouse_id,
                               items |-> b.items,
                               user |-> ContextUserID(a)[1]])
    /\ UNCHANGED <<reader, cancelled, otherVars>>

\* the service returned: the handler writes the response
Respond(c) ==
    /\ http.stage = "service"
    /\ pc[c] = "done"
    /\ LET r == HandlerResponse(ret[c]) IN
          http' = [http EXCEPT
                      !.stage = IF r.status = 0 THEN "panicked" ELSE "responded",
                      !.status = r.status,
                      !.error = r.error]
    /\ UNCHANGED <<dbVars, seq, tx, pc, req, idx, purchase, purchaseItem, ret,
                   stepErr, log, faults, reader, cancelled, otherVars>>

\* the steps of one call after its entry, when no other call runs
ServiceSteps(c) ==
    \/ CheckWarehouse(c)
    \/ CheckProduct(c)
    \/ BeginTx(c)
    \/ CreateHeader(c)
    \/ CreateItem(c)
    \/ IncrementStock(c)
    \/ CreateMovement(c)
    \/ Commit(c)

\* a call of CreatePurchase with any request of the wide domain
StartWide(c) ==
    /\ pc[c] = "idle"
    /\ \E r \in WideRequests : Enter(c, r)
    /\ UNCHANGED envVars

NextWide ==
    \/ StartWide(1)
    \/ ServiceSteps(1)
    \/ GetByIDHeader
    \/ GetByIDItems

\* one call alone, over the wide request domain, and a reader
SpecWide == Init /\ [][NextWide]_vars

NextDelete ==
    \/ StartWide(1)
    \/ ServiceSteps(1)
    \/ \E p \in ProductIds : DeleteProduct(p)
    \/ \E w \in WarehouseIds : DeleteWarehouse(w)

\* one call, with products and warehouses deleted concurrently
SpecDelete == Init /\ [][NextDelete]_vars

NextCancel ==
    \/ StartWide(1)
    \/ ServiceSteps(1)
    \/ Cancel(1)

\* one call whose request context may be cancelled at any point
SpecCancel == Init /\ [][NextCancel]_vars

NextHttp ==
    \/ ServeHTTP(1)
    \/ ServiceSteps(1)
    \/ Respond(1)
    \/ Cancel(1)
    \/ \E p \in ProductIds : DeleteProduct(p)
    \/ \E w \in WarehouseIds : DeleteWarehouse(w)

\* one POST /purchases through the route, with the storage faults,
\* cancellation and concurrent deletes its service call can meet
SpecHttp == Init /\ [][NextHttp]_vars

\* ------------------------------------------------- StockOut, by statement
purchaseVars ==
    <<dbVars, seq, tx, pc, req, idx, purchase, purchaseItem, ret, stepErr,
      log, reader, cancelled, http>>

\* what StockOut never writes
exceptStockOut == <<purchaseVars, mw, login, catalog, earlier>>

Row(c) == <<out[c].product_id, out[c].warehouse_id>>

\* another open StockOut transaction holds the row lock of k
RowLocked(c, k) ==
    \E o \in Calls \ {c} :
        out[o].tx = "open" /\ out[o].locked /\ Row(o) = k

SelectTakesNoLock(c) == FALSE

\* SELECT ... FOR UPDATE locks the row it reads until the transaction ends
SelectTakesLock(c) == TRUE

OutAbortHowCommits(step) == IF step = "insert" THEN "commit" ELSE "rollback"

\* what StockOut does to its transaction when a statement fails
OutAbortHow(step) == "rollback"

\* the pending writes of the transaction of c become visible
OutCommit(c) ==
    /\ inventory' = IF out[c].update = <<>> THEN inventory
                    ELSE [inventory EXCEPT ![Row(c)] = out[c].update[1]]
    /\ stock_out' = stock_out \cup out[c].insert

\* tx.Rollback() and return e; the mutated abort commits instead
OutFail(c, step, e) ==
    /\ out' = [out EXCEPT ![c].pc = "done", ![c].err = e,
                          ![c].tx = IF OutAbortHow(step) = "commit"
                                    THEN "committed" ELSE "rolledback"]
    /\ IF OutAbortHow(step) = "commit"
       THEN OutCommit(c)
       ELSE UNCHANGED <<inventory, stock_out>>

\* POST /stock-out reaches StockOut through the handler and the service:
\* tx, err := r.db.Begin()
StockOutBegin(c) ==
    /\ out[c].pc = "idle"
    /\ \E r \in StockOutRequests :
          LET o == [NoStockOut EXCEPT !.product_id = r.product_id,
                                      !.warehouse_id = r.warehouse_id,
                                      !.quantity = r.quantity]
          IN \/ /\ Fault
                /\ out' = [out EXCEPT ![c] = [o EXCEPT !.pc = "done",
                                                       !.err = ErrStorageFault]]
             \/ /\ NoFault
                /\ out' = [out EXCEPT ![c] = [o EXCEPT !.pc = "select",
                                                       !.tx = "open"]]
    /\ UNCHANGED <<inventory, stock_out, exceptStockOut>>

\* SELECT quantity FROM inventory WHERE ... FOR UPDATE, scanned into
\* currentQty; it waits while another transaction holds the row lock
StockOutSelect(c) ==
    /\ out[c].pc = "select"
    /\ \/ /\ Fault
          /\ OutFail(c, "select", ErrStorageFault)
       \/ /\ NoFault
          /\ Row(c) \notin DOMAIN inventory
          /\ OutFail(c, "select", ErrNoRows)
       \/ /\ NoFault
          /\ Row(c) \in DOMAIN inventory
          /\ SelectTakesLock(c) => ~RowLocked(c, Row(c))
          /\ out' = [out EXCEPT ![c].pc = "update",
                                ![c].currentQty = inventory[Row(c)],
                                ![c].locked = SelectTakesLock(c)]
          /\ UNCHANGED <<inventory, stock_out>>
    /\ UNCHANGED exceptStockOut

\* if currentQty < quantity: rollback, "not enough stock"; otherwise
\* UPDATE inventory SET quantity = quantity - $1, which takes the row lock
\* if the transaction does not hold it yet
StockOutUpdate(c) ==
    /\ out[c].pc = "update"
    /\ IF out[c].currentQty < out[c].quantity
       THEN /\ NoFault
            /\ OutFail(c, "check", ErrNotEnoughStock)
       ELSE \/ /\ Fault
               /\ OutFail(c, "update", ErrStorageFault)
            \/ /\ NoFault
               /\ ~RowLocked(c, Row(c))
               /\ out' = [out EXCEPT
                            ![c].pc = "insert",
                            ![c].locked = TRUE,
                            ![c].update =
                                <<inventory[Row(c)] - out[c].quantity>>]
               /\ UNCHANGED <<inventory, stock_out>>
    /\ UNCHANGED exceptStockOut

\* INSERT INTO stock_out (product_id, warehouse_id, quantity, reason,
\* created_at); the row is tagged with the call that wrote it
StockOutInsert(c) ==
    /\ out[c].pc = "insert"
    /\ \/ /\ Fault
          /\ OutFail(c, "insert", ErrStorageFault)
       \/ /\ NoFault
          /\ out' = [out EXCEPT
                       ![c].pc = "commit",
                       ![c].insert = {[call |-> c,
                                       product_id |-> out[c].product_id,
                                       warehouse_id |-> out[c].warehouse_id,
                                       quantity |-> out[c].quantity]}]
          /\ UNCHANGED <<inventory, stock_out>>
    /\ UNCHANGED exceptStockOut

\* return tx.Commit(): a failed commit leaves nothing of the transaction
StockOutCommit(c) ==
    /\ out[c].pc = "commit"
    /\ \/ /\ Fault
          /\ out' = [out EXCEPT ![c].pc = "done", ![c].tx = "rolledback",
                                ![c].err = ErrStorageFault]
          /\ UNCHANGED <<inventory, stock_out>>
       \/ /\ NoFault
          /\ out' = [out EXCEPT ![c].pc = "done", ![c].tx = "committed"]
          /\ OutCommit(c)
    /\ UNCHANGED exceptStockOut

NextStockOut ==
    \E c \in Calls :
        \/ StockOutBegin(c)
        \/ StockOutSelect(c)
        \/ StockOutUpdate(c)
        \/ StockOutInsert(c)
        \/ StockOutCommit(c)

\* two concurrent POST /stock-out calls with storage faults
SpecStockOut == Init /\ [][NextStockOut]_vars

\* ---------------------------------------------- a request through a route
exceptPassage ==
    <<purchaseVars, faults, stockOutVars, login, catalog, earlier>>

\* the mux hands a request to the handler registered for its path
Arrive ==
    /\ mw.stage = "none"
    /\ \E route \in ProtectedRoutes, m \in Methods, a \in TokenHeaders :
          mw' = [NoPassage EXCEPT !.stage = "running", !.route = route,
                                  !.method = m, !.auth = a,
                                  !.layers = Layers(route)]
    /\ UNCHANGED exceptPassage

\* the outermost remaining layer wrote the response r and returned
Refuse(layer, r) ==
    mw' = [mw EXCEPT !.stage = "done", !.layers = <<>>,
                     !.order = Append(mw.order, layer),
                     !.status = r.status, !.error = r.error]

\* the outermost remaining layer called next.ServeHTTP
CallNext(layer, role) ==
    mw' = [mw EXCEPT !.layers = Tail(mw.layers),
                     !.order = Append(mw.order, layer),
                     !.role = role]

\* middleware.JWTAuth: 401, or the token's role claim (if a string) goes
\* into the request context and the next layer runs
RunJWTAuth ==
    /\ mw.stage = "running"
    /\ Head(mw.layers) = "JWTAuth"
    /\ IF JWTAuth(mw.auth) # Pass
       THEN Refuse("JWTAuth", JWTAuth(mw.auth))
       ELSE CallNext("JWTAuth", <<mw.auth.role>>)
    /\ UNCHANGED exceptPassage

\* middleware.RequireRole(roles...): 403 unless the context holds a role
\* of the allowed set
RunRequireRole ==
    /\ mw.stage = "running"
    /\ Head(mw.layers) = "RequireRole"
    /\ LET r == RequireRoleOf(mw.role, Allowed(mw.route)) IN
          IF r # Pass THEN Refuse("RequireRole", r)
          ELSE CallNext("RequireRole", mw.role)
    /\ UNCHANGED exceptPassage

\* the method switch of /purchases between JWTAuth and RequireRole
RunSwitch ==
    /\ mw.stage = "running"
    /\ Head(mw.layers) = "switch"
    /\ IF mw.method # "POST"
       THEN Refuse("switch", Reply(405, "method not allowed"))
       ELSE CallNext("switch", mw.role)
    /\ UNCHANGED exceptPassage

\* the wrapped handler is entered
RunHandler ==
    /\ mw.stage = "running"
    /\ Head(mw.layers) = "handler"
    /\ mw' = [mw EXCEPT !.stage = "done", !.layers = <<>>,
                        !.order = Append(mw.order, "handler"),
                        !.reached = TRUE]
    /\ UNCHANGED exceptPassage

NextPassage ==
    \/ Arrive
    \/ RunJWTAuth
    \/ RunRequireRole
    \/ RunSwitch
    \/ RunHandler

\* one request on a route protected by JWTAuth and RequireRole
SpecPassage == Init /\ [][NextPassage]_vars

\* --------------------------------------------- login, then use the token
exceptLogin == <<purchaseVars, faults, stockOutVars, mw, catalog, earlier>>

\* POST /auth/login served, against a users table and against the table
\* that differs only in whether the request's email is registered
ServeLogin ==
    /\ login.stage = "none"
    /\ \E env \in Secrets, users \in UserStores, r \in LoginRequests,
          failed \in BOOLEAN :
          \E twin \in IF r.email = "" THEN {users} ELSE Twins(users, r.email) :
             login' = [NoLogin EXCEPT
                          !.stage = "answered", !.env = env, !.users = users,
                          !.twin = twin, !.req = r, !.failed = failed,
                          !.res = Login(users, r, env, failed),
                          !.twinRes = Login(twin, r, env, failed)]
    /\ UNCHANGED exceptLogin

\* the token of a successful login is presented to a route behind JWTAuth,
\* before or after its expiry, under the same environment
PresentToken ==
    /\ login.stage = "answered"
    /\ login.res.err = NoError
    /\ \E expired \in BOOLEAN :
          login' = [login EXCEPT
                       !.stage = "presented", !.expired = expired,
                       !.verdict = JWTAuth(ParseToken(login.res.token,
                                                      login.env, expired))]
    /\ UNCHANGED exceptLogin

NextLogin ==
    \/ ServeLogin
    \/ PresentToken

\* one login and the use of its token
SpecLogin == Init /\ [][NextLogin]_vars

\* ----------------------------------------- product service, by lock section
exceptCatalog == <<purchaseVars, faults, stockOutVars, mw, login, earlier>>

ProductReturn(c, e) ==
    catalog' = [catalog EXCEPT !.calls[c].pc = "done", !.calls[c].err = e]

\* productService.CreateProduct up to the call of repo.Create: the field
\* check and the GetBySKU lookup
ProductServiceCreate(c) ==
    /\ catalog.calls[c].pc \in {"idle", "done"}
    /\ catalog.ops < MaxOps
    /\ \E p \in ProductArgs :
          LET e == IF p.name = "" \/ p.sku = "" THEN ErrInvalidInput
                   ELSE IF SkuTaken(p.sku) THEN ErrProductExists
                        ELSE NoError
          IN catalog' = [catalog EXCEPT
                            !.ops = @ + 1,
                            !.calls[c] = [pc |-> IF e = NoError THEN "create"
                                                 ELSE "done",
                                          arg |-> p, err |-> e]]
    /\ UNCHANGED exceptCatalog

\* productRepository.Create, under the write lock
RepoCreate(c) ==
    /\ catalog.calls[c].pc = "create"
    /\ LET p == catalog.calls[c].arg IN
          IF SkuTaken(p.sku)
          THEN ProductReturn(c, ErrProductExists)
          ELSE catalog' = [catalog EXCEPT
                  !.products = (catalog.nextID :>
                                   [p EXCEPT !.id = catalog.nextID]) @@ @,
                  !.nextID = @ + 1,
                  !.calls[c].pc = "done",
                  !.calls[c].arg.id = catalog.nextID]
    /\ UNCHANGED exceptCatalog

\* productService.UpdateProduct up to the call of repo.Update: the id
\* check and the GetByID lookup
ProductServiceUpdate(c) ==
    /\ catalog.calls[c].pc \in {"idle", "done"}
    /\ catalog.ops < MaxOps
    /\ \E p \in ProductArgs :
          LET e == IF p.id <= 0 THEN ErrInvalidInput
                   ELSE IF p.id \notin DOMAIN catalog.products
                        THEN ErrProductNotFound
                        ELSE NoError
          IN catalog' = [catalog EXCEPT
                            !.ops = @ + 1,
                            !.calls[c] = [pc |-> IF e = NoError THEN "update"
                                                 ELSE "done",
                                          arg |-> p, err |-> e]]
    /\ UNCHANGED exceptCatalog

\* productRepository.Update, under the write lock
RepoUpdate(c) ==
    /\ catalog.calls[c].pc = "update"
    /\ LET p == catalog.calls[c].arg IN
          IF p.id \notin DOMAIN catalog.products
          THEN ProductReturn(c, ErrProductNotFound)
          ELSE catalog' = [catalog EXCEPT !.products[p.id] = p,
                                          !.calls[c].pc = "done"]
    /\ UNCHANGED exceptCatalog

\* productService.DeleteProduct with productRepository.Delete
ProductServiceDelete(c) ==
    /\ catalog.calls[c].pc \in {"idle", "done"}
    /\ catalog.ops < MaxOps
    /\ \E id \in 0 .. 3 :
          LET e == IF id <= 0 THEN ErrInvalidInput
                   ELSE IF id \notin DOMAIN catalog.products
                        THEN ErrProductNotFound
                        ELSE NoError
              live == DOMAIN catalog.products \ {id}
          IN catalog' = [catalog EXCEPT
                  !.ops = @ + 1,
                  !.products = IF e = NoError
                               THEN [i \in live |-> catalog.products[i]]
                               ELSE @,
                  !.deleted = IF e = NoError THEN @ \cup {id} ELSE @,
                  !.calls[c] = [pc |-> "done",
                                arg |-> [id |-> id, name |-> "", sku |-> ""],
                                err |-> e]]
    /\ UNCHANGED exceptCatalog

NextCatalog ==
    \E c \in Calls :
        \/ ProductServiceCreate(c)
        \/ RepoCreate(c)
        \/ ProductServiceUpdate(c)
        \/ RepoUpdate(c)
        \/ ProductServiceDelete(c)

\* two callers of the product service over one in-memory repository
SpecCatalog == Init /\ [][NextCatalog]_vars

\* ------------------------- the earlier single-line CreatePurchase, by step
exceptEarlier == <<purchaseVars, stockOutVars, mw, login, catalog>>

EarlierReturn(c, e, txState) ==
    earlier' = [earlier EXCEPT !.calls[c].pc = "done",
                               !.calls[c].err = e,
                               !.calls[c].tx = txState]

\* entry: the quantity check, then database.BeginTx(ctx)
EarlierBeginTx(c) ==
    /\ earlier.calls[c].pc = "idle"
    /\ \E p \in EarlierPurchases :
          LET call == [NoEarlierCall EXCEPT !.purchase = p] IN
          IF p.quantity <= 0
          THEN /\ NoFault
               /\ earlier' = [earlier EXCEPT !.calls[c] =
                      [call EXCEPT !.pc = "done", !.err = ErrInvalidQuantity]]
          ELSE \/ /\ Fault
                  /\ earlier' = [earlier EXCEPT !.calls[c] =
                         [call EXCEPT !.pc = "done", !.err = ErrStorageFault]]
               \/ /\ NoFault
                  /\ earlier' = [earlier EXCEPT !.calls[c] =
                         [call EXCEPT !.pc = "warehouse", !.tx = "open"]]
    /\ UNCHANGED exceptEarlier

\* s.warehouseRepo.ExistsByID, after the transaction was begun: on an
\* error or a missing warehouse the call returns as it is
EarlierExistsByID(c) ==
    /\ earlier.calls[c].pc = "warehouse"
    /\ \/ /\ Fault
          /\ EarlierReturn(c, ErrStorageFault, earlier.calls[c].tx)
       \/ /\ NoFault
          /\ IF earlier.calls[c].purchase.warehouse_id \notin warehouses
             THEN EarlierReturn(c, ErrWarehouseNotFound, earlier.calls[c].tx)
             ELSE earlier' = [earlier EXCEPT !.calls[c].pc = "create"]
    /\ UNCHANGED exceptEarlier

\* s.purchaseRepo.CreateWithTx; on an error: tx.Rollback()
EarlierCreateWithTx(c) ==
    /\ earlier.calls[c].pc = "create"
    /\ \/ /\ Fault
          /\ EarlierReturn(c, ErrStorageFault, "rolledback")
       \/ /\ NoFault
          /\ earlier' = [earlier EXCEPT
                 !.seq = @ + 1,
                 !.calls[c].pc = "commit",
                 !.calls[c].id = earlier.seq + 1,
                 !.calls[c].pending =
                     {[id |-> earlier.seq + 1] @@ earlier.calls[c].purchase}]
    /\ UNCHANGED exceptEarlier

\* tx.Commit(); on an error: tx.Rollback()
EarlierCommit(c) ==
    /\ earlier.calls[c].pc = "commit"
    /\ \/ /\ Fault
          /\ EarlierReturn(c, ErrStorageFault, "rolledback")
       \/ /\ NoFault
          /\ earlier' = [earlier EXCEPT
                 !.rows = @ \cup earlier.calls[c].pending,
                 !.calls[c].pc = "done",
                 !.calls[c].tx = "committed"]
    /\ UNCHANGED exceptEarlier

NextEarlier ==
    \E c \in Calls :
        \/ EarlierBeginTx(c)
        \/ EarlierExistsByID(c)
        \/ EarlierCreateWithTx(c)
        \/ EarlierCommit(c)

\* two concurrent calls of the earlier CreatePurchase with storage faults
SpecEarlier == Init /\ [][NextEarlier]_vars

TypeOK ==
    /\ \A c \in Calls : tx[c].state \in TxStates
    /\ \A p \in ProductIds : stock[p] >= 0

\* ===================================================================
\* Properties
\* ===================================================================
Done(c) == pc[c] = "done"

Succeeded(c) == Done(c) /\ ret[c].err = NoError /\ ret[c].purchase # Nil

\* the call failed in a step performed after its unit of work was opened
FailedInTx(c) == Done(c) /\ stepErr[c] # NoError

\* the statement that failed (the log ends with it and the rollback)
FailedOp(c) == log[c][Len(log[c]) - 1]

RECURSIVE SumOver(_, _)
\* stock received for product p by the calls of S that returned a purchase
SumOver(S, p) ==
    IF S = {} THEN 0
    ELSE LET c == CHOOSE x \in S : TRUE
         IN (IF Succeeded(c) THEN LineSum(req[c].items, p) ELSE 0)
            + SumOver(S \ {c}, p)

HeadersOf(c) == {h \in purchases : h.id = purchase[c].id}

ItemsOf(c) == {i \in purchase_items : i.purchase_id = purchase[c].id}

MovementsOf(c) ==
    {m \in inventory_movements : m.reference_id = purchase[c].id}

NothingCommittedBy(c) ==
    /\ HeadersOf(c) = {}
    /\ ItemsOf(c) = {}
    /\ MovementsOf(c) = {}

\* C1: a call that fails in any step after its unit of work was opened has
\* its transaction rolled back, and once it has returned no header, item or
\* movement row of it is committed and the committed stock holds only the
\* quantities of the calls that returned a purchase.
C1_FailedCallLeavesNothing ==
    \A c \in Calls :
        FailedInTx(c) =>
            /\ tx[c].state = "rolledback"
            /\ ret[c].purchase = Nil
            /\ NothingCommittedBy(c)
            /\ \A p \in ProductIds :
                   stock[p] = InitialStock[p] + SumOver(Calls \ {c}, p)

\* C1 witness: the movement insert of the second line failed, after the
\* first line and the item and stock of the second had been written.
C1_Witness ==
    \E c \in Calls :
        /\ FailedInTx(c)
        /\ FailedOp(c) = [op |-> "createMovement", line |-> 2]
        /\ purchase[c].id # 0

\* C2: when two calls that name the same product have both committed, the
\* stock of every product is the initial stock plus the quantities of both.
C2_NoLostUpdate ==
    (\A c \in Calls : Succeeded(c)) =>
        \A p \in ProductIds :
            stock[p] = InitialStock[p] + LineSum(req[1].items, p)
                                       + LineSum(req[2].items, p)

\* C2 witness: both calls committed purchases of product 1 with different
\* quantities, and their transactions overlapped (call 2 inserted an item
\* between the header and an item of call 1).
C2_Witness ==
    /\ \A c \in Calls : Succeeded(c)
    /\ LineSum(req[1].items, 1) = 1
    /\ LineSum(req[2].items, 1) = 2
    /\ purchase[1].id < purchase[2].id
    /\ \E i \in ItemsOf(1), j \in ItemsOf(2) : j.id < i.id
    /\ stock[1] = 3

\* C3: the commit of a call adds to the stock of every product the sum of
\* the quantities of the request lines naming it (nothing for a product the
\* request does not name), and no other step changes committed stock.
C3_StockAdditive ==
    [][ /\ \A c \in Calls :
              (tx[c].state = "open" /\ tx'[c].state = "committed") =>
                  \A p \in ProductIds :
                      stock'[p] = stock[p] + LineSum(req[c].items, p)
        /\ (\A c \in Calls : tx'[c].state = "committed" => tx[c].state = "committed")
              => stock' = stock ]_vars

\* C3 witness: a committed purchase with two lines for the same product.
C3_Witness ==
    \E c \in Calls :
        /\ Succeeded(c)
        /\ Len(req[c].items) = 2
        /\ req[c].items[1].product_id = 2
        /\ req[c].items[2].product_id = 2
        /\ req[c].items[1].quantity = 1
        /\ req[c].items[2].quantity = 2
        /\ stock[2] = 3
        /\ stock[1] = 0

MatchingMovements(i) ==
    {m \in inventory_movements :
        /\ m.product_id = i.product_id
        /\ m.reference_id = i.purchase_id
        /\ m.quantity = i.quantity
        /\ m.movement_type = "purchase"}

TwinItems(i) ==
    {j \in purchase_items :
        /\ j.purchase_id = i.purchase_id
        /\ j.product_id = i.product_id
        /\ j.quantity = i.quantity}

\* C4 as stated: every committed purchase item has exactly one movement of
\* type purchase with its product id, purchase id and quantity.
C4_ExactlyOneMovement ==
    \A i \in purchase_items : Cardinality(MatchingMovements(i)) = 1

\* C4 amended: every committed purchase item has as many matching movements
\* of type purchase as its purchase has items with that product id and
\* quantity (one per line: exactly one unless a line is repeated).
C4_OneMovementPerLine ==
    \A i \in purchase_items :
        /\ Cardinality(MatchingMovements(i)) = Cardinality(TwinItems(i))
        /\ MatchingMovements(i) # {}

\* C4 witness: a committed purchase with two identical lines and one with
\* a single line.
C4_Witness ==
    /\ \E i \in purchase_items : Cardinality(MatchingMovements(i)) = 2
    /\ \E i \in purchase_items : Cardinality(MatchingMovements(i)) = 1

\* the calls whose purchase header a reader can see
Visible == {c \in Calls : purchase[c].id # 0 /\ HeadersOf(c) # {}}

RECURSIVE VisibleSum(_, _)
VisibleSum(S, p) ==
    IF S = {} THEN 0
    ELSE LET c == CHOOSE x \in S : TRUE
         IN LineSum(req[c].items, p) + VisibleSum(S \ {c}, p)

\* C5: at every moment the committed state shows each purchase with its
\* header, all of its items, all of its movements and its stock deltas, or
\* with none of them; a GetByID that found the header reads every item.
C5_AllOrNothingVisible ==
    /\ \A c \in Calls :
          purchase[c].id # 0 =>
              \/ NothingCommittedBy(c)
              \/ /\ Cardinality(HeadersOf(c)) = 1
                 /\ Cardinality(ItemsOf(c)) = Len(req[c].items)
                 /\ Cardinality(MovementsOf(c)) = Len(req[c].items)
    /\ \A i \in purchase_items : \E h \in purchases : h.id = i.purchase_id
    /\ \A m \in inventory_movements : \E h \in purchases : h.id = m.reference_id
    /\ \A p \in ProductIds : stock[p] = InitialStock[p] + VisibleSum(Visible, p)
    /\ reader.pc = "found" =>
          \E c \in Calls :
              /\ purchase[c].id = reader.id
              /\ Len(reader.items) = Len(req[c].items)

\* C5 witness: the reader found a purchase with its two items while the
\* other call had written its header and an item but had not committed.
C5_Witness ==
    /\ reader.pc = "found"
    /\ Len(reader.items) = 2
    /\ \E c \in Calls :
          /\ tx[c].state = "open"
          /\ tx[c].purchases # {}
          /\ tx[c].items # {}
          /\ NothingCommittedBy(c)

HasMissingProduct(r) ==
    \E k \in 1 .. Len(r.items) : r.items[k].product_id \notin InitialProducts

\* C6: a call whose request names a product that does not exist never
\* opens a unit of work and writes nothing: no header, item, movement or
\* stock update of it exists, committed or not, and it returns an error.
C6_MissingProductWritesNothing ==
    \A c \in Calls :
        (pc[c] # "idle" /\ HasMissingProduct(req[c])) =>
            /\ tx[c] = EmptyTx
            /\ purchase[c].id = 0
            /\ \A k \in 1 .. Len(log[c]) :
                   log[c][k].op \in {"validate", "warehouseExists", "productExists"}
            /\ \A p \in ProductIds :
                   stock[p] = InitialStock[p] + SumOver(Calls \ {c}, p)
            /\ Done(c) => ret[c].purchase = Nil /\ ret[c].err # NoError

\* C6 witness: lines [product 1, product 3]; product 3 does not exist; the
\* call returned product-not-found for it after checking product 1, and
\* the stock of product 1 is what the other, committed, call made it.
C6_Witness ==
    \E c \in Calls, o \in Calls :
        /\ c # o
        /\ Done(c)
        /\ Len(req[c].items) = 2
        /\ req[c].items[1].product_id = 1
        /\ req[c].items[2].product_id = 3
        /\ ret[c].err = ErrorfProduct(ErrProductNotFound, 3)
        /\ log[c][Len(log[c])] = [op |-> "productExists", line |-> 2]
        /\ Succeeded(o)
        /\ stock[1] = LineSum(req[o].items, 1)
        /\ stock[1] > 0

InvalidItems(items) ==
    \/ items = <<>>
    \/ \E k \in 1 .. Len(items) : items[k].quantity <= 0

\* C7: a request with no items or with a quantity <= 0 returns a validation
\* error at once: no existence check, no unit of work, no write.
C7_InvalidRequestTouchesNothing ==
    \A c \in Calls :
        (pc[c] # "idle" /\ InvalidItems(req[c].items)) =>
            /\ Done(c)
            /\ ret[c].purchase = Nil
            /\ ret[c].err = IF req[c].items = <<>> THEN ErrEmptyPurchaseItems
                            ELSE ErrInvalidQuantity
            /\ log[c] = <<[op |-> "validate", line |-> 0]>>
            /\ tx[c] = EmptyTx
            /\ purchase[c].id = 0

\* C7 witness: quantity 0 on the second line of a request whose warehouse
\* and first product do not exist either; and an empty request.
C7_Witness ==
    \E c \in Calls, o \in Calls :
        /\ c # o
        /\ Done(c)
        /\ req[c].warehouse_id \notin warehouses
        /\ Len(req[c].items) = 2
        /\ req[c].items[1].product_id \notin products
        /\ req[c].items[1].quantity > 0
        /\ req[c].items[2].quantity = 0
        /\ ret[c].err = ErrInvalidQuantity
        /\ Done(o)
        /\ req[o].items = <<>>
        /\ ret[o].err = ErrEmptyPurchaseItems

\* C8 as stated: concurrent calls never wait for each other's row locks in
\* a cycle, and none is aborted because of the order it updates products.
C8_NoDeadlock ==
    \A c \in Calls :
        /\ ~ \E h \in WaitsFor(c) : c \in WaitsFor(h)
        /\ ~ Is(ret[c].err, ErrDeadlock)

TxStatements ==
    {"createPurchase", "createItem", "incrementStock", "createMovement", "commit"}

C10_ErrorUnmodified ==
    \A c \in Calls : FailedInTx(c) => ret[c].err = stepErr[c]

StepPrefix(op) ==
    CASE op = "createPurchase" -> "failed to create purchase"
      [] op = "createItem" -> "failed to create purchase item"
      [] op = "incrementStock" -> "failed to increment stock"
      [] op = "createMovement" -> "failed to create inventory movement"
      [] op = "commit" -> "failed to commit transaction"

\* C10 amended: the error returned wraps the inner step's error e: its
\* message is the step's prefix followed by the message of e, unwrapping it
\* gives e, and the transaction was rolled back before it was returned.
C10_ErrorWrapsInner ==
    \A c \in Calls :
        FailedInTx(c) =>
            /\ ret[c].err # stepErr[c]
            /\ Unwrap(ret[c].err) = stepErr[c]
            /\ Is(ret[c].err, stepErr[c])
            /\ ret[c].err[1].text
                  = <<StepPrefix(FailedOp(c).op)>> \o stepErr[c][1].text
            /\ tx[c].state = "rolledback"
            /\ log[c][Len(log[c])].op = "rollback"

\* C10 witness: an item insert failed with a storage error, which the
\* repository had wrapped once.
C10_Witness ==
    \E c \in Calls :
        /\ FailedInTx(c)
        /\ FailedOp(c).op = "createItem"
        /\ stepErr[c] = Errorf("failed to create purchase item", ErrStorageFault)
        /\ Is(ret[c].err, ErrStorageFault)

\* the error message names the product id
Mentions(e, id) ==
    /\ e # NoError
    /\ \E k \in DOMAIN e[1].text :
          e[1].text[k] \in {ToString(id), "product_id=" \o ToString(id)}

\* the call returned from item validation, before any lookup
RejectedByValidation(c) ==
    /\ Done(c)
    /\ log[c] = <<[op |-> "validate", line |-> 0]>>

\* C11 as stated: the invalid-quantity error returned for a non-empty list
\* with a quantity <= 0 indicates the product id of an offending line.
C11_InvalidQuantityNamesProduct ==
    \A c \in Calls :
        (pc[c] # "idle" /\ req[c].items # <<>>
            /\ \E i \in DOMAIN req[c].items : req[c].items[i].quantity <= 0) =>
            \E i \in DOMAIN req[c].items :
                /\ req[c].items[i].quantity <= 0
                /\ Mentions(ret[c].err, req[c].items[i].product_id)

\* C11 amended: validation returns the empty-items error iff the list is
\* empty; otherwise, if some line has quantity <= 0, it returns the bare
\* invalid-quantity sentinel, whose message is the fixed sentence and names
\* no product; otherwise it returns no error and the call goes on to the
\* warehouse lookup. Validation writes nothing and opens no unit of work.
C11_ValidationResult ==
    \A c \in Calls :
        pc[c] # "idle" =>
            LET items == req[c].items
                bad == \E i \in DOMAIN items : items[i].quantity <= 0
            IN /\ (RejectedByValidation(c) /\ ret[c].err = ErrEmptyPurchaseItems)
                     <=> items = <<>>
               /\ (items # <<>> /\ bad) =>
                     /\ RejectedByValidation(c)
                     /\ ret[c].err[1] =
                            [text |-> <<"quantity must be greater than zero">>,
                             cause |-> <<>>]
                     /\ \A p \in ProductIds : ~Mentions(ret[c].err, p)
               /\ (items # <<>> /\ ~bad) => ~RejectedByValidation(c)
               /\ Len(log[c]) = 1 =>
                     /\ tx[c] = EmptyTx
                     /\ purchases = {} /\ purchase_items = {}
                     /\ inventory_movements = {}
                     /\ stock = InitialStock
                     /\ seq.purchases = 0 /\ seq.purchase_items = 0
                     /\ (items # <<>> /\ ~bad) => pc[c] = "checkWarehouse"

\* C11 witness: a request whose first line is valid and whose second line
\* has a negative quantity was rejected with the invalid-quantity sentinel.
C11_Witness ==
    \E c \in Calls :
        /\ RejectedByValidation(c)
        /\ Len(req[c].items) = 2
        /\ req[c].items[1].quantity > 0
        /\ req[c].items[2].quantity < 0
        /\ ret[c].err = ErrInvalidQuantity

\* the index of the first line whose product does not exist, or 0
FirstMissing(items) ==
    IF \E i \in DOMAIN items : items[i].product_id \notin InitialProducts
    THEN CHOOSE i \in DOMAIN items :
            /\ items[i].product_id \notin InitialProducts
            /\ \A j \in 1 .. (i - 1) : items[j].product_id \in InitialProducts
    ELSE 0

\* C12: for a request that passes item validation, when no lookup fails on
\* the storage, the warehouse is looked up first and then the products line
\* by line in submission order; a missing warehouse gives the
\* warehouse-not-found error and no product is looked up, even if products
\* are missing too; otherwise the call returns at the first line whose
\* product is missing, with a product-not-found error that wraps the
\* sentinel and names exactly that line's product id.
C12_LookupOrder ==
    \A c \in Calls :
        (pc[c] # "idle" /\ ~InvalidItems(req[c].items) /\ faults = 0) =>
            LET items == req[c].items
                k == FirstMissing(items)
                n == Len(log[c])
            IN /\ n >= 2 => log[c][2] = [op |-> "warehouseExists", line |-> 0]
               /\ \A i \in 3 .. n :
                     i <= 2 + Len(items) =>
                        log[c][i] = [op |-> "productExists", line |-> i - 2]
               /\ (req[c].warehouse_id \notin InitialWarehouses /\ n >= 2) =>
                     /\ Done(c) /\ n = 2
                     /\ ret[c].purchase = Nil
                     /\ ret[c].err = ErrWarehouseNotFound
               /\ (req[c].warehouse_id \in InitialWarehouses /\ k # 0) =>
                     /\ n <= 2 + k
                     /\ n = 2 + k =>
                           /\ Done(c)
                           /\ ret[c].purchase = Nil
                           /\ ret[c].err[1].text =
                                 <<"product not found",
                                   "product_id=" \o ToString(items[k].product_id)>>
                           /\ Is(ret[c].err, ErrProductNotFound)
                           /\ \A p \in WideProductIds \ {items[k].product_id} :
                                 ~Mentions(ret[c].err, p)

\* C12 witness: both products of the request are missing; the call returned
\* after the first lookup, naming the product of the first line.
C12_Witness ==
    \E c \in Calls :
        /\ Done(c)
        /\ req[c].warehouse_id \in warehouses
        /\ Len(req[c].items) = 2
        /\ req[c].items[1].product_id = 4
        /\ req[c].items[2].product_id = 3
        /\ Len(log[c]) = 3
        /\ Mentions(ret[c].err, 4)
        /\ ~Mentions(ret[c].err, 3)

\* the positions of the log of call c that hold operation op
LogPositions(c, op) == {i \in DOMAIN log[c] : log[c][i].op = op}

\* C13: a unit of work is opened only at the step that follows item
\* validation having passed, one warehouse lookup and one successful product
\* lookup for every line of the request, in that order; and no lookup is
\* made once the unit of work has been opened.
C13_ChecksBeforeBegin ==
    \A c \in Calls :
        LET items == req[c].items
            n == Len(items)
        IN /\ tx[c].state # "idle" => LogPositions(c, "begin") # {}
           /\ \A b \in LogPositions(c, "begin") :
                 /\ b = n + 3
                 /\ log[c][1].op = "validate"
                 /\ ~InvalidItems(items)
                 /\ LogPositions(c, "warehouseExists") = {2}
                 /\ req[c].warehouse_id \in InitialWarehouses
                 /\ \A k \in 1 .. n :
                       /\ log[c][2 + k] = [op |-> "productExists", line |-> k]
                       /\ items[k].product_id \in InitialProducts
                 /\ LogPositions(c, "productExists") = 3 .. (n + 2)
                 /\ LogPositions(c, "validate") = {1}

\* C13 witness: a unit of work is open after the lookups of a two-line
\* request, and its header insert has been made.
C13_Witness ==
    \E c \in Calls :
        /\ tx[c].state = "open"
        /\ Len(req[c].items) = 2
        /\ req[c].items[1].product_id # req[c].items[2].product_id
        /\ Len(log[c]) = 6
        /\ log[c][5].op = "begin"
        /\ log[c][6].op = "createPurchase"

\* the operation the item loop issues at position m after the header insert
WriteOf(m) ==
    [op |-> <<"createItem", "incrementStock", "createMovement">>[((m - 1) % 3) + 1],
     line |-> ((m - 1) \div 3) + 1]

\* the item rows call c has written, committed or not, in id order
WrittenItems(c) ==
    OrderById(tx[c].items \cup {i \in purchase_items : i.purchase_id = purchase[c].id})

\* C14: after the header insert the writes of a call follow the lines in
\* submission order, item row, stock increment, movement row for each line;
\* the k-th item row written carries the product and quantity of line k;
\* the commit comes only after the last line and nothing follows it but the
\* rollback of a failed commit; and a failing write is followed by the
\* rollback only, with no write for any later line.
C14_WriteOrder ==
    \A c \in Calls :
        \A b \in LogPositions(c, "begin") :
            LET items == req[c].items
                n == Len(log[c])
            IN /\ n >= b + 1 =>
                     log[c][b + 1].op \in {"createPurchase", "rollback"}
               /\ \A i \in (b + 2) .. n :
                     CASE log[c][i].op = "rollback" -> i = n
                       [] log[c][i].op = "commit" ->
                            /\ i = b + 2 + 3 * Len(items)
                            /\ i = n \/ (i = n - 1 /\ log[c][n].op = "rollback")
                       [] OTHER ->
                            /\ log[c][i] = WriteOf(i - b - 1)
                            /\ log[c][i].line <= Len(items)
               /\ \A k \in DOMAIN WrittenItems(c) :
                     /\ k <= Len(items)
                     /\ WrittenItems(c)[k].product_id = items[k].product_id
                     /\ WrittenItems(c)[k].quantity = items[k].quantity

\* C14 witness: the stock increment of the second line failed after the
\* three writes of the first line and the item row of the second; the log
\* ends with the rollback.
C14_Witness ==
    \E c \in Calls :
        /\ Done(c)
        /\ Len(req[c].items) = 2
        /\ req[c].items[1].product_id # req[c].items[2].product_id
        /\ Len(log[c]) = 12
        /\ log[c][7] = [op |-> "createItem", line |-> 1]
        /\ log[c][8] = [op |-> "incrementStock", line |-> 1]
        /\ log[c][9] = [op |-> "createMovement", line |-> 1]
        /\ log[c][10] = [op |-> "createItem", line |-> 2]
        /\ log[c][11] = [op |-> "incrementStock", line |-> 2]
        /\ log[c][12].op = "rollback"

\* every row, committed or in an open write set, references rows that exist
ReferencesExist ==
    /\ \A h \in purchases : h.warehouse_id \in warehouses
    /\ \A i \in purchase_items : i.product_id \in products
    /\ \A m \in inventory_movements :
          m.product_id \in products /\ m.warehouse_id \in warehouses
    /\ \A c \in Calls :
          tx[c].state = "open" =>
             /\ \A h \in tx[c].purchases : h.warehouse_id \in warehouses
             /\ \A i \in tx[c].items : i.product_id \in products
             /\ \A m \in tx[c].movements :
                   m.product_id \in products /\ m.warehouse_id \in warehouses

\* the write call c is about to make references a row that was deleted
\* after its lookup
StaleWrite(c) ==
    \/ pc[c] = "createPurchase" /\ req[c].warehouse_id \notin warehouses
    \/ /\ pc[c] \in {"createItem", "createMovement"}
       /\ \/ req[c].items[idx[c]].product_id \notin products
          \/ req[c].warehouse_id \notin warehouses

\* the step of a stale write: it fails, the transaction is rolled back, the
\* call returns an error and no purchase, and the committed state is as
\* it was
StaleWriteFails ==
    \A c \in Calls :
        (StaleWrite(c) /\ pc'[c] # pc[c]) =>
            /\ pc'[c] = "done"
            /\ tx'[c].state = "rolledback"
            /\ tx'[c].items = {} /\ tx'[c].purchases = {}
            /\ ret'[c].purchase = Nil
            /\ ret'[c].err # NoError
            /\ \/ Is(ret'[c].err, ErrForeignKey)
               \/ Is(ret'[c].err, ErrStorageFault)
            /\ UNCHANGED dbVars

\* C15: once a warehouse or product that passed its lookup has been
\* deleted, the write that references it fails (on the foreign key, unless a
\* storage fault hits it first), the unit of work is rolled back, the call
\* returns an error and nothing of it persists; a call that returned a
\* purchase still has its warehouse and all its products; and no row,
\* committed or pending, ever references a missing product or warehouse.
C15_StaleCheckFailsWrite ==
    /\ [](ReferencesExist
          /\ \A c \in Calls :
                /\ Succeeded(c) =>
                      /\ req[c].warehouse_id \in warehouses
                      /\ \A k \in DOMAIN req[c].items :
                            req[c].items[k].product_id \in products
                /\ (Done(c) /\ Is(ret[c].err, ErrForeignKey)) =>
                      /\ tx[c].state = "rolledback"
                      /\ NothingCommittedBy(c)
                      /\ purchases = {} /\ purchase_items = {}
                      /\ inventory_movements = {}
                      /\ stock = InitialStock)
    /\ [][StaleWriteFails]_vars

\* C15 witness: the product of the second line was deleted after its lookup
\* and after the writes of the first line; the item insert of the second
\* line failed on the foreign key and the call returned the wrapped error.
C15_Witness ==
    \E c \in Calls :
        /\ Done(c)
        /\ Len(req[c].items) = 2
        /\ req[c].items[1].product_id \in products
        /\ req[c].items[2].product_id \in InitialProducts \ products
        /\ Len(log[c]) = 11
        /\ log[c][4] = [op |-> "productExists", line |-> 2]
        /\ log[c][10] = [op |-> "createItem", line |-> 2]
        /\ log[c][11].op = "rollback"
        /\ Is(ret[c].err, ErrForeignKey)
        /\ tx[c].state = "rolledback"
        /\ purchases = {}

\* the context of call c was cancelled after its unit of work was opened
\* (a call that is cancelled has not returned, so the unit was still open)
CancelledWhileOpen(c) ==
    \E b \in LogPositions(c, "begin"), i \in LogPositions(c, "cancel") : b < i

\* C16: from the moment the request context is cancelled while the unit of
\* work is open, the transaction is rolled back and stays so: it is never
\* open or committed afterwards, no row or stock change of the call is
\* committed, and when the call returns it returns an error and no purchase.
C16_CancelRollsBack ==
    \A c \in Calls :
        CancelledWhileOpen(c) =>
            /\ tx[c].state = "rolledback"
            /\ tx[c].purchases = {} /\ tx[c].items = {} /\ tx[c].movements = {}
            /\ NothingCommittedBy(c)
            /\ purchases = {} /\ purchase_items = {} /\ inventory_movements = {}
            /\ stock = InitialStock
            /\ LogPositions(c, "commit") # {} => Done(c)
            /\ Done(c) => ret[c].purchase = Nil /\ ret[c].err # NoError

\* C16 witness: the context was cancelled when all writes of a two-line
\* request were made and only the commit was left; the commit was refused
\* and the call returned the context error.
C16_Witness ==
    \E c \in Calls :
        /\ Done(c)
        /\ Len(req[c].items) = 2
        /\ Len(log[c]) = 15
        /\ log[c][12] = [op |-> "createMovement", line |-> 2]
        /\ log[c][13].op = "cancel"
        /\ log[c][14].op = "commit"
        /\ log[c][15].op = "rollback"
        /\ Is(ret[c].err, ErrContextCanceled)
        /\ tx[c].state = "rolledback"
        /\ purchases = {}

\* the request context of the exchange carries no non-zero user id
NoCallerIdentity ==
    \/ http.auth.kind # "valid"
    \/ http.auth.user_id = <<>>
    \/ http.auth.user_id = <<0>>

\* C17 as stated: a POST /purchases whose request context carries no
\* non-zero user id is answered 401, whatever its body, and the purchase
\* service is not called.
C17_NoIdentityIs401 ==
    (http.stage # "none" /\ http.method = "POST" /\ NoCallerIdentity) =>
        /\ http.stage = "responded"
        /\ http.status = 401
        /\ ~http.served

\* the service was called for the exchange and the handler is done with it
Answered(c) ==
    /\ http.served
    /\ http.stage \in {"responded", "panicked"}
    /\ Done(c)

\* C18: whatever the service returned for an authenticated POST /purchases,
\* the handler writes a response, and its status is 201 for a purchase, 400
\* for the empty-items and invalid-quantity errors, 404 for the
\* warehouse-not-found error and for the product-not-found error, bare or
\* wrapped with the product id, and 500 for every other error.
C18_StatusMapping ==
    \A c \in Calls :
        Answered(c) =>
            LET e == ret[c].err IN
               /\ http.stage = "responded"
               /\ http.status =
                     CASE e = NoError -> 201
                       [] e \in {ErrEmptyPurchaseItems, ErrInvalidQuantity} -> 400
                       [] Is(e, ErrWarehouseNotFound) \/ Is(e, ErrProductNotFound) -> 404
                       [] OTHER -> 500
               /\ (FailedInTx(c) \/ Is(e, ErrStorageFault)
                     \/ Is(e, ErrContextCanceled)) => http.status = 500
               /\ HandlerResponse([purchase |-> Nil,
                                   err |-> ErrEmptyPurchaseItems]).status = 400

\* C18 witness: the product of the second line does not exist; the service
\* returned the wrapped product-not-found error and the handler answered 404.
C18_Witness ==
    \E c \in Calls :
        /\ Answered(c)
        /\ Len(req[c].items) = 2
        /\ req[c].items[2].product_id = 3
        /\ ret[c].err # ErrProductNotFound
        /\ Is(ret[c].err, ErrProductNotFound)
        /\ Mentions(ret[c].err, 3)
        /\ http.status = 404

RECURSIVE RootCause(_)
\* the innermost error of a chain of wrapped errors
RootCause(e) == IF Unwrap(e) = NoError THEN e ELSE RootCause(Unwrap(e))

\* string t occurs in string s
Contains(s, t) ==
    \E i \in 1 .. (Len(s) - Len(t) + 1) : SubSeq(s, i, i + Len(t) - 1) = t

StorageErrors ==
    {ErrStorageFault, ErrDeadlock, ErrForeignKey, ErrCheckViolation,
     ErrContextCanceled}

SentinelErrors ==
    {ErrWarehouseNotFound, ErrProductNotFound, ErrInvalidQuantity,
     ErrEmptyPurchaseItems}

\* C19: when the service call failed on the storage, in a lookup or inside
\* the unit of work, the body is the fixed text "internal server error" and
\* holds nothing of the storage error's message; any other error text in a
\* body is the text of a sentinel error, for product-not-found followed by
\* the product id.
C19_NoStorageTextInBody ==
    \A c \in Calls :
        (Answered(c) /\ ret[c].err # NoError) =>
            LET root == RootCause(ret[c].err) IN
               /\ root \in StorageErrors =>
                     /\ http.status = 500
                     /\ http.error = "internal server error"
               /\ \A se \in StorageErrors :
                     ~Contains(http.error, ErrorString(se))
               /\ ~Contains(http.error, "pq:")
               /\ ~Contains(http.error, "failed to")
               /\ http.error # "internal server error" =>
                     /\ root \in SentinelErrors
                     /\ http.error \in
                           {ErrorString(root)} \cup
                           {ErrorString(root) \o ": product_id=" \o ToString(p) :
                               p \in ProductIds}

\* C19 witness: the product of the second line was deleted after its
\* lookup; the item insert failed on the foreign key inside the unit of
\* work and the client got the generic body with status 500.
C19_Witness ==
    \E c \in Calls :
        /\ Answered(c)
        /\ FailedInTx(c)
        /\ RootCause(ret[c].err) = ErrForeignKey
        /\ Contains(ErrorString(ret[c].err), "pq: violates foreign key constraint")
        /\ http.status = 500
        /\ http.error = "internal server error"

\* C20: the purchase a successful call returns has one item per submitted
\* line, in the same positions, with the line's product id, quantity and
\* unit price, the id the insert generated and the id of the purchase; and
\* a GetByID of that purchase made afterwards lists the same items, by id,
\* in that same order.
C20_ItemsInSubmissionOrder ==
    \A c \in Calls :
        Succeeded(c) =>
            LET p == ret[c].purchase[1]
                lines == req[c].items
            IN /\ p.id # 0
               /\ \E h \in purchases : h.id = p.id
               /\ Len(p.items) = Len(lines)
               /\ \A k \in DOMAIN lines :
                     /\ p.items[k].product_id = lines[k].product_id
                     /\ p.items[k].quantity = lines[k].quantity
                     /\ p.items[k].unit_price = lines[k].unit_price
                     /\ p.items[k].purchase_id = p.id
                     /\ p.items[k].id # 0
                     /\ \E row \in purchase_items :
                           /\ row.id = p.items[k].id
                           /\ row.purchase_id = p.id
                           /\ row.product_id = lines[k].product_id
                           /\ row.quantity = lines[k].quantity
                     /\ \A j \in DOMAIN lines : j # k => p.items[j].id # p.items[k].id
               /\ (reader.pc = "found" /\ reader.id = p.id) =>
                     /\ Len(reader.items) = Len(lines)
                     /\ \A k \in DOMAIN lines :
                           /\ reader.items[k].id = p.items[k].id
                           /\ reader.items[k].product_id = lines[k].product_id
                           /\ reader.items[k].quantity = lines[k].quantity

\* C20 witness: a purchase of two lines of different products, quantities
\* and unit prices was returned and then read back with its two items.
C20_Witness ==
    \E c \in Calls :
        /\ Succeeded(c)
        /\ Len(req[c].items) = 2
        /\ req[c].items[1].product_id = 2
        /\ req[c].items[2].product_id = 1
        /\ req[c].items[1].quantity # req[c].items[2].quantity
        /\ req[c].items[1].unit_price = <<1005>>
        /\ req[c].items[2].unit_price = NoPrice
        /\ ret[c].purchase[1].items[1].unit_price = <<1005>>
        /\ reader.pc = "found"
        /\ reader.id = ret[c].purchase[1].id
        /\ Len(reader.items) = 2
        /\ reader.items[1].product_id = 2
        /\ reader.items[1].unit_price = <<1010>>

\* C21 as stated: every committed purchase item has a quantity > 0 and, when
\* it has a unit price, a unit price >= 0.
C21_ItemsPositive ==
    \A i \in purchase_items :
        /\ i.quantity > 0
        /\ i.unit_price # NoPrice => i.unit_price[1] >= 0

OutDone(c) == out[c].pc = "done"

OutSucceeded(c) == OutDone(c) /\ out[c].err = NoError

\* the quantities of a set of calls, or of stock_out rows, summed
RECURSIVE SumQuantity(_, _)
SumQuantity(S, f) ==
    IF S = {} THEN 0
    ELSE LET x == CHOOSE y \in S : TRUE
         IN f[x].quantity + SumQuantity(S \ {x}, f)

RowsOf(k) ==
    {r \in stock_out : <<r.product_id, r.warehouse_id>> = k}

\* C23: with concurrent StockOut calls on one inventory row, the committed
\* quantity is never negative and always equals the initial quantity minus
\* the quantities of the calls that returned success.
C23_SerializedDecrement ==
    \A k \in DOMAIN inventory :
        /\ inventory[k] >= 0
        /\ inventory[k] = InitialInventory[k]
              - SumQuantity({c \in Calls : OutSucceeded(c) /\ Row(c) = k}, out)

\* C23 witness: two calls ran on the same row, whose initial quantity would
\* have served either alone: one succeeded and the other, reading the row
\* after that commit, was refused for lack of stock.
C23_Witness ==
    \E c \in Calls, o \in Calls :
        /\ c # o
        /\ Row(c) = Row(o)
        /\ OutSucceeded(c)
        /\ out[c].quantity > 0
        /\ OutDone(o)
        /\ out[o].err = ErrNotEnoughStock
        /\ out[o].quantity <= InitialQuantity
        /\ out[o].currentQty = InitialQuantity - out[c].quantity

\* C24: a StockOut that returns an error has no open or committed
\* transaction and no stock_out row, and each inventory quantity is the
\* initial one minus the quantities of the committed stock_out rows of
\* that row: a stock_out row is committed exactly with its decrement, and
\* a failed call changes nothing.
C24_FailureLeavesNothing ==
    /\ \A c \in Calls :
          /\ OutDone(c) /\ out[c].err # NoError =>
                /\ out[c].tx \in {"idle", "rolledback"}
                /\ \A r \in stock_out : r.call # c
          /\ (\E r \in stock_out : r.call = c) <=> out[c].tx = "committed"
    /\ \A k \in DOMAIN inventory :
          inventory[k] =
              InitialInventory[k]
              - SumQuantity({r.call : r \in RowsOf(k)}, out)

\* C24 witness: a call whose UPDATE had run failed at its INSERT, another
\* found no inventory row, and the quantity is the initial one.
C24_Witness ==
    \E c \in Calls, o \in Calls :
        /\ OutDone(c)
        /\ out[c].err = ErrStorageFault
        /\ out[c].quantity > 0
        /\ out[c].update # <<>>
        /\ out[c].insert = {}
        /\ inventory[Row(c)] = InitialQuantity
        /\ OutDone(o)
        /\ out[o].err = ErrNoRows

\* C25 as stated: no step of a StockOut call, whatever quantity the
\* handler accepted for it, leaves an inventory quantity higher than it was.
C25_NeverIncreases ==
    [][\A k \in DOMAIN inventory : inventory'[k] <= inventory[k]]_vars

\* C26 as stated: on every route protected by JWTAuth and RequireRole,
\* built by nesting or with Chain, RequireRole never runs before JWTAuth
\* and a request with a valid token whose role is allowed reaches the
\* wrapped handler.
C26_TokenReachesHandler ==
    /\ \A i \in 1 .. Len(mw.order) :
          mw.order[i] = "RequireRole" =>
              \E j \in 1 .. i - 1 : mw.order[j] = "JWTAuth"
    /\ /\ mw.stage = "done"
       /\ mw.auth.kind = "valid"
       /\ mw.auth.role \in Allowed(mw.route)
       /\ mw.route = "/purchases" => mw.method = "POST"
       => mw.reached

C28_LoginDoesNotRevealEmail ==
    /\ login.stage # "none"
    /\ login.req.email # ""
    /\ login.req.password # ""
    => /\ login.res.err # NoError =>
             /\ login.res.err = ErrInvalidCredentials
             /\ LoginResponse(login.res) =
                    Reply(401, "invalid email or password")
       /\ login.res.err # NoError /\ login.twinRes.err # NoError =>
             /\ login.res = login.twinRes
             /\ LoginResponse(login.res) = LoginResponse(login.twinRes)

\* C28 witness: the same attempt fails with a wrong password where the
\* email is registered and fails where it is not, with no lookup failure.
C28_Witness ==
    /\ login.stage = "answered"
    /\ ~login.failed
    /\ login.req.email \in DOMAIN login.users
    /\ login.req.email \notin DOMAIN login.twin
    /\ login.req.password # ""
    /\ login.users[login.req.email].password_hash # Hash(login.req.password)
    /\ login.res.err # NoError
    /\ login.twinRes.err # NoError

\* C29 as stated: after any interleaving of Create, Update and Delete on
\* the in-memory product repository, no two stored products share a SKU,
\* every product is stored under its own id, and no id that was deleted
\* is in use again.
C29_UniqueProducts ==
    /\ \A i \in DOMAIN catalog.products, j \in DOMAIN catalog.products :
          i # j => catalog.products[i].sku # catalog.products[j].sku
    /\ \A i \in DOMAIN catalog.products : catalog.products[i].id = i
    /\ catalog.deleted \cap DOMAIN catalog.products = {}

\* C30 as stated: when a call of the earlier single-line CreatePurchase
\* has returned, the transaction it began, if any, is committed or rolled
\* back, on every path.
C30_TxFinishedAtReturn ==
    \A c \in Calls :
        earlier.calls[c].pc = "done" =>
            earlier.calls[c].tx \in {"idle", "committed", "rolledback"}

====
